---- MODULE Spec2Model ----
(***************************************************************************)
(* Host-side credential-injecting proxies (github-mcp-proxy.py,            *)
(* github-git-proxy.py, claude-vm-proxy.py).                               *)
(*                                                                         *)
(* Text is modelled as a tuple of one-character strings, so that the       *)
(* regular expressions, prefix tests and strip() of the source are         *)
(* computed character by character.                                        *)
(***************************************************************************)
EXTENDS Naturals, Integers, Sequences, FiniteSets, TLC

\* one call of enforce_repo_scope: its argument and its result
VARIABLES scopeIn, scopeOut

\* the MCP proxy: configuration, and the handler thread of one connection
\* (position, request, locals of do_request, what the last upstream attempt
\* ended in, what was sent upstream, the sleeps of the retry loop, the
\* response to the VM)
VARIABLES mcpCfg, mcpPc, mcpReq, mcpScope, mcpHeaders, mcpBody, mcpAttempt,
          mcpLastError, mcpLast, mcpUpstream, mcpSleeps, mcpResp

\* the git proxy: configuration, and the handler thread of one connection
VARIABLES gitCfg, gitPc, gitReq, gitHeaders, gitAttempt, gitLastError,
          gitLast, gitUpstream, gitSleeps, gitResp

\* the inference proxy: ANTHROPIC_API_KEY, the credential file, the wall
\* clock (ms), and the handler thread of one connection
VARIABLES infApiKey, credFile, clock, infPc, infReq, infAuth, infHeaders,
          infRefreshes, infUpstream, infResp

\* the credential manager of the inference proxy under concurrent requests:
\* the in-process mutex (0 when free, else the thread that holds it), the
\* holder of the flock on .credentials.lock, each handler thread's position
\* in get_auth_token, its locals and its result, and the POSTs made to the
\* OAuth token endpoint
VARIABLES _refresh_lock, credFlock, thrPc, thrLocal, thrOut, tokenCalls

\* one direct call of a function of claude-vm-proxy.py, as the unit tests
\* make them: the function called, its arguments with the readings of
\* time.time() around and within the call, and what it returned
VARIABLES callFn, callArgs, callRet

\* the life of one daemon process: which daemon it is and the
\* configuration it was started with, the position of the main thread, the
\* lines written to standard output and to standard error, the exit status,
\* the two flags of socketserver.BaseServer (__shutdown_request and the
\* event __is_shut_down), whether the listening socket is open, the number
\* of termination signals delivered, and the connection threads
VARIABLES procDaemon, procEnv, mainPc, procStdout, procStderr, exitCode,
          shutdown_request, is_shut_down, listening, signals, connPc

\* the credential file on disk while _save_credentials and the lock-free
\* read of get_auth_token run side by side: the content of every inode,
\* the inode CREDENTIALS_PATH and tmp_path name (0: no such file), the
\* holder of the flock on lock_path, and per writer its position, the
\* inode its open temporary file refers to, the document it is writing and
\* whether an OSError was raised; per reader its position, the inode it
\* has open, and what its reads returned; pathLog is every content
\* CREDENTIALS_PATH has named so far
VARIABLES inodes, pathIno, tmpIno, lockHolder, savePc, saveFd, disk_creds,
          saveFailed, readPc, readFd, readFrom, readLog, pathLog

\* one VM connection of a proxy and the upstream response relayed on it
VARIABLES wDaemon, wPc, wIn, wUnread, wReq, wAuthOk, wUp, wRead, wOut,
          wUpConn, wCalls, wConn, wLog

scopeVars == <<scopeIn, scopeOut>>

storeVars ==
    <<inodes, pathIno, tmpIno, lockHolder, savePc, saveFd, disk_creds,
      saveFailed, readPc, readFd, readFrom, readLog, pathLog>>

wireVars ==
    <<wDaemon, wPc, wIn, wUnread, wReq, wAuthOk, wUp, wRead, wOut, wUpConn,
      wCalls, wConn, wLog>>

mcpVars ==
    <<mcpCfg, mcpPc, mcpReq, mcpScope, mcpHeaders, mcpBody, mcpAttempt,
      mcpLastError, mcpLast, mcpUpstream, mcpSleeps, mcpResp>>

gitVars ==
    <<gitCfg, gitPc, gitReq, gitHeaders, gitAttempt, gitLastError,
      gitLast, gitUpstream, gitSleeps, gitResp>>

infVars ==
    <<infApiKey, credFile, clock, infPc, infReq, infAuth, infHeaders,
      infRefreshes, infUpstream, infResp>>

credVars == <<_refresh_lock, credFlock, thrPc, thrLocal, thrOut, tokenCalls>>

callVars == <<callFn, callArgs, callRet>>

procVars ==
    <<procDaemon, procEnv, mainPc, procStdout, procStderr, exitCode,
      shutdown_request, is_shut_down, listening, signals, connPc>>

vars ==
    <<scopeVars, mcpVars, gitVars, infVars, credVars, callVars, procVars,
      storeVars, wireVars>>

(***************************************************************************)
(* Bounds of the model                                                     *)
(***************************************************************************)
\* the handler threads of the inference proxy that serve requests at once
NumThreads == 2

\* the POSTs to the token endpoint that one behaviour holds
MaxTokenCalls == 2

\* how often the wall clock advances
MaxTicks == 1

\* the connection threads of a daemon that serve requests at once
NumConns == 2

\* the signals delivered to a daemon process
MaxSignals == 2

\* a search query is the concatenation of at most MaxQueryFrags fragments
MaxQueryFrags == 4

(***************************************************************************)
(* Characters and text helpers (Python str semantics)                      *)
(***************************************************************************)
Letters ==
    {"a","b","c","d","e","f","g","h","i","j","k","l","m",
     "n","o","p","q","r","s","t","u","v","w","x","y","z"}

Digits == {"0","1","2","3","4","5","6","7","8","9"}

\* \w of the re module
WordChars == Letters \cup Digits \cup {"_"}

\* \s of the re module, and the characters str.strip() removes
Whitespace == {" ", "\t", "\n", "\r"}

IsSpace(c) == c \in Whitespace

IsWord(c) == c \in WordChars

\* s[i:i+len(p)] == p
MatchesAt(s, i, p) ==
    /\ i >= 1
    /\ i + Len(p) - 1 <= Len(s)
    /\ SubSeq(s, i, i + Len(p) - 1) = p

\* s.startswith(p)
startswith(s, p) == MatchesAt(s, 1, p)

\* p in s
Contains(s, p) == \E i \in 1..(Len(s) - Len(p) + 1) : MatchesAt(s, i, p)

RECURSIVE lstrip(_)
lstrip(s) == IF s # <<>> /\ IsSpace(Head(s)) THEN lstrip(Tail(s)) ELSE s

RECURSIVE rstrip(_)
rstrip(s) ==
    IF s # <<>> /\ IsSpace(s[Len(s)])
    THEN rstrip(SubSeq(s, 1, Len(s) - 1))
    ELSE s

\* str.strip()
strip(s) == rstrip(lstrip(s))

(***************************************************************************)
(* Configuration of the MCP proxy (github-mcp-proxy.py, module level).     *)
(* main() refuses to start unless owner and repo are both non-empty.       *)
(***************************************************************************)
OWNER == <<"o">>

REPO == <<"r">>

\* a mutant of REPO_FIELDS: the repo field is not enforced
REPO_FIELDS_owner_only == << <<"owner", OWNER>> >>

\* REPO_FIELDS.items(), in insertion order
REPO_FIELDS == << <<"owner", OWNER>>, <<"repo", REPO>> >>

UNSCOPED_TOOLS == {"get_me"}

SEARCH_TOOLS ==
    {"search_code", "search_repositories", "search_issues",
     "search_pull_requests"}

BLOCKED_SEARCH_TOOLS == {"search_users", "search_orgs"}

ORG_TOOLS == {"get_teams", "get_team_members", "list_issue_types"}

\* the tools with owner/repo fields of KNOWN_TOOLS
REPO_FIELD_TOOLS ==
    {"create_branch", "create_or_update_file", "create_repository",
     "delete_file", "fork_repository", "get_commit", "get_file_contents",
     "get_latest_release", "get_release_by_tag", "get_tag",
     "list_branches", "list_commits", "list_releases", "list_tags",
     "push_files",
     "add_issue_comment", "assign_copilot_to_issue", "get_label",
     "issue_read", "issue_write", "list_issues", "sub_issue_write",
     "add_comment_to_pending_review", "add_reply_to_pull_request_comment",
     "create_pull_request", "list_pull_requests", "merge_pull_request",
     "pull_request_read", "pull_request_review_write",
     "request_copilot_review", "update_pull_request",
     "update_pull_request_branch",
     "get_repository_tree",
     "label_write", "list_label"}

KNOWN_TOOLS ==
    UNSCOPED_TOOLS \cup SEARCH_TOOLS \cup BLOCKED_SEARCH_TOOLS
        \cup ORG_TOOLS \cup REPO_FIELD_TOOLS

(***************************************************************************)
(* JSON values and request bodies.                                         *)
(*                                                                         *)
(* A body is bytes.  kind "empty" is b"", kind "raw" is bytes that         *)
(* json.loads rejects, kind "json" is a well-formed document: val is the   *)
(* value json.loads returns and fmt is the way the bytes spell it ("py"    *)
(* is exactly the spelling json.dumps produces, "compact" stands for any   *)
(* other spelling).  Two bodies are the same bytes iff they are equal.     *)
(***************************************************************************)
EmptyMap == [k \in {} |-> <<>>]

\* a JSON string / a JSON number inside `arguments`
StrVal(s) == [t |-> "str", s |-> s]

NumVal(s) == [t |-> "num", s |-> s]

NoName == [t |-> "absent", s |-> ""]

NoArgs == [t |-> "absent", f |-> EmptyMap]

NoParams == [t |-> "absent", name |-> NoName, args |-> NoArgs]

NoDoc == [top |-> "none", method |-> "absent", params |-> NoParams]

EmptyBody == [kind |-> "empty", fmt |-> "raw", val |-> NoDoc]

RawBody == [kind |-> "raw", fmt |-> "raw", val |-> NoDoc]

\* the `None` that stands for "no body" in a result
NoneBody == [kind |-> "none", fmt |-> "raw", val |-> NoDoc]

JsonBody(fmt, val) == [kind |-> "json", fmt |-> fmt, val |-> val]

\* json.loads: the spelling is forgotten
json_loads(body) == body.val

\* json.dumps(...).encode(): always the default spelling
json_dumps(val) == JsonBody("py", val)

(***************************************************************************)
(* Results of the policy functions                                         *)
(***************************************************************************)
NoMsg == [kind |-> "none", tool |-> NoName, what |-> <<>>, value |-> StrVal(<<>>)]

Msg(kind, tool, what, value) ==
    [kind |-> kind, tool |-> tool, what |-> what, value |-> value]

\* (body, None)
Accept(body) == [out |-> "ok", body |-> body, msg |-> NoMsg]

\* (None, msg)
Reject(msg) == [out |-> "reject", body |-> NoneBody, msg |-> msg]

\* an exception leaves the function
Raise == [out |-> "raise", body |-> NoneBody, msg |-> NoMsg]

NoResult == [out |-> "none", body |-> NoneBody, msg |-> NoMsg]

(***************************************************************************)
(* Regular expressions of _enforce_search_scope                            *)
(***************************************************************************)
\* the last index of the greedy run (\S+) that starts at index j
RECURSIVE NonSpaceRunEnd(_, _)
NonSpaceRunEnd(s, j) ==
    IF j < Len(s) /\ ~IsSpace(s[j + 1]) THEN NonSpaceRunEnd(s, j + 1) ELSE j

\* \b in front of the word character at index i
WordBoundaryBefore(s, i) == i = 1 \/ ~IsWord(s[i - 1])

\* the pattern \b<name>:(\S+) matches at index i
QualifierAt(s, i, name) ==
    /\ WordBoundaryBefore(s, i)
    /\ MatchesAt(s, i, name \o <<":">>)
    /\ i + Len(name) + 1 <= Len(s)
    /\ ~IsSpace(s[i + Len(name) + 1])

\* re.finditer(r'\b(n1|n2|..):(\S+)', s): the non-overlapping matches, left
\* to right, searching from index i
RECURSIVE finditer(_, _, _)
finditer(names, s, i) ==
    IF i > Len(s) THEN <<>>
    ELSE IF \E n \in names : QualifierAt(s, i, n)
         THEN LET n == CHOOSE m \in names : QualifierAt(s, i, m)
                  vs == i + Len(n) + 1
                  ve == NonSpaceRunEnd(s, vs)
              IN  << [qualifier |-> n, value |-> SubSeq(s, vs, ve)] >>
                      \o finditer(names, s, ve + 1)
         ELSE finditer(names, s, i + 1)

Q_repo == <<"r","e","p","o">>

Q_org == <<"o","r","g">>

Q_user == <<"u","s","e","r">>

\* f"{OWNER}/{REPO}"
OwnerRepo == OWNER \o <<"/">> \o REPO

\* scope = f"repo:{OWNER}/{REPO}"
ScopeString == Q_repo \o <<":">> \o OwnerRepo

\* a mutant of WideningQualifiers: user: is not looked for
WideningQualifiers_org_only == {Q_org}

\* the alternation (org|user) of the second pattern
WideningQualifiers == {Q_org, Q_user}

(***************************************************************************)
(* _enforce_search_scope(tool, args): args is the dict `arguments`.        *)
(* The result is [out, args, msg]; out = "raise" when re.finditer gets a   *)
(* query that is not a str.                                                *)
(***************************************************************************)
_enforce_search_scope(tool, args) ==
    IF OWNER = <<>> \/ REPO = <<>>
    THEN [out |-> "ok", args |-> args, msg |-> NoMsg]
    ELSE
    LET queryVal == IF "query" \in DOMAIN args THEN args["query"]
                    ELSE StrVal(<<>>)
    IN
    IF queryVal.t # "str"
    THEN [out |-> "raise", args |-> args, msg |-> NoMsg]
    ELSE
    LET query == queryVal.s
        repoMatches == finditer({Q_repo}, query, 1)
        badRepo == {k \in 1..Len(repoMatches) :
                        repoMatches[k].value # OwnerRepo}
        wideMatches == finditer(WideningQualifiers, query, 1)
    IN
    IF badRepo # {}
    THEN LET k == CHOOSE m \in badRepo : \A n \in badRepo : m <= n
         IN  [out |-> "reject", args |-> args,
              msg |-> Msg("repo_qualifier", tool, Q_repo,
                          StrVal(repoMatches[k].value))]
    ELSE IF wideMatches # <<>>
    THEN [out |-> "reject", args |-> args,
          msg |-> Msg("widening_qualifier", tool, wideMatches[1].qualifier,
                      StrVal(wideMatches[1].value))]
    ELSE IF ~Contains(query, ScopeString)
    THEN [out |-> "ok",
          args |-> [k \in DOMAIN args \cup {"query"} |->
                       IF k = "query"
                       THEN StrVal(strip(ScopeString \o <<" ">> \o query))
                       ELSE args[k]],
          msg |-> NoMsg]
    ELSE [out |-> "ok", args |-> args, msg |-> NoMsg]

(***************************************************************************)
(* The loop over REPO_FIELDS.items() of enforce_repo_scope: a present      *)
(* field must equal the enforced value, an absent one is injected.         *)
(***************************************************************************)
\* a mutant of enforce_fields: the body counts as modified also when no
\* field was injected
RECURSIVE enforce_fields_always_modified(_, _, _, _)
enforce_fields_always_modified(tool, args, fields, modified) ==
    IF fields = <<>>
    THEN [out |-> "ok", args |-> args, modified |-> TRUE, msg |-> NoMsg]
    ELSE
    LET field == fields[1][1]
        enforced_value == fields[1][2]
    IN
    IF enforced_value = <<>>
    THEN enforce_fields_always_modified(tool, args, Tail(fields), modified)
    ELSE IF field \in DOMAIN args
    THEN IF args[field] # StrVal(enforced_value)
         THEN [out |-> "reject", args |-> args, modified |-> modified,
               msg |-> Msg("field", tool, field, args[field])]
         ELSE enforce_fields_always_modified(tool, args, Tail(fields), modified)
    ELSE enforce_fields_always_modified(tool,
                        [k \in DOMAIN args \cup {field} |->
                            IF k = field THEN StrVal(enforced_value)
                            ELSE args[k]],
                        Tail(fields), TRUE)

RECURSIVE enforce_fields(_, _, _, _)
enforce_fields(tool, args, fields, modified) ==
    IF fields = <<>>
    THEN [out |-> "ok", args |-> args, modified |-> modified, msg |-> NoMsg]
    ELSE
    LET field == fields[1][1]
        enforced_value == fields[1][2]
    IN
    IF enforced_value = <<>>
    THEN enforce_fields(tool, args, Tail(fields), modified)
    ELSE IF field \in DOMAIN args
    THEN IF args[field] # StrVal(enforced_value)
         THEN [out |-> "reject", args |-> args, modified |-> modified,
               msg |-> Msg("field", tool, field, args[field])]
         ELSE enforce_fields(tool, args, Tail(fields), modified)
    ELSE enforce_fields(tool,
                        [k \in DOMAIN args \cup {field} |->
                            IF k = field THEN StrVal(enforced_value)
                            ELSE args[k]],
                        Tail(fields), TRUE)

\* req["params"]["arguments"] = args
WithArguments(req, args) ==
    [req EXCEPT !.params.args = [t |-> "obj", f |-> args]]

(***************************************************************************)
(* enforce_repo_scope(body_bytes)                                          *)
(***************************************************************************)
enforce_repo_scope(body_bytes) ==
    IF body_bytes.kind = "empty" THEN Accept(body_bytes)
    ELSE IF body_bytes.kind # "json" THEN Accept(body_bytes)
    ELSE
    LET req == json_loads(body_bytes) IN
    \* req.get on a value that is not a dict: AttributeError
    IF req.top # "obj" THEN Raise
    ELSE IF req.method # "tools/call" THEN Accept(body_bytes)
    \* params.get on a value that is not a dict: AttributeError
    ELSE IF req.params.t \notin {"absent", "obj"} THEN Raise
    ELSE
    LET params == req.params
        \* params.get("name", "unknown")
        tool == IF params.name.t = "absent"
                THEN [t |-> "str", s |-> "unknown"]
                ELSE params.name
        \* params.get("arguments", {})
        args == IF params.args.t = "absent"
                THEN [t |-> "obj", f |-> EmptyMap]
                ELSE params.args
    IN
    IF args.t # "obj" THEN Accept(body_bytes)
    \* `tool not in KNOWN_TOOLS` hashes tool: TypeError for a list or dict
    ELSE IF tool.t = "list" THEN Raise
    ELSE IF ~(tool.t = "str" /\ tool.s \in KNOWN_TOOLS)
    THEN Reject(Msg("unknown_tool", tool, <<>>, StrVal(<<>>)))
    ELSE IF tool.s \in UNSCOPED_TOOLS THEN Accept(body_bytes)
    ELSE IF tool.s \in ORG_TOOLS \/ tool.s \in BLOCKED_SEARCH_TOOLS
    THEN Reject(Msg("not_repo_scoped", tool, <<>>, StrVal(<<>>)))
    ELSE IF tool.s \in SEARCH_TOOLS
    THEN LET r == _enforce_search_scope(tool, args.f) IN
         IF r.out = "raise" THEN Raise
         ELSE IF r.out = "reject" THEN Reject(r.msg)
         ELSE Accept(json_dumps(WithArguments(req, r.args)))
    ELSE LET r == enforce_fields(tool, args.f, REPO_FIELDS, FALSE) IN
         IF r.out = "reject" THEN Reject(r.msg)
         ELSE IF r.modified
         THEN Accept(json_dumps(WithArguments(req, r.args)))
         ELSE Accept(body_bytes)

(***************************************************************************)
(* Inputs of enforce_repo_scope                                            *)
(***************************************************************************)
QueryFragments ==
    { Q_repo \o <<":">>, OwnerRepo, <<"x">>, <<" ">>,
      Q_org \o <<":">>, Q_user \o <<":">>, <<"-">> }

RECURSIVE QueriesOf(_)
QueriesOf(n) ==
    IF n = 0 THEN {<<>>}
    ELSE LET prev == QueriesOf(n - 1)
         IN  prev \cup {q \o f : q \in prev, f \in QueryFragments}

Queries == QueriesOf(MaxQueryFrags)

Formats == {"py", "compact"}

ToolName(n) == [t |-> "str", s |-> n]

NameInputs ==
    {ToolName(n) : n \in KNOWN_TOOLS \cup {"totally_fake_tool", "unknown"}}
        \cup {NoName, [t |-> "num", s |-> "5"], [t |-> "list", s |-> ""]}

ArgKeys == {"owner", "repo", "branch", "query"}

ArgChoices(k) ==
    CASE k = "owner" -> {StrVal(OWNER), StrVal(<<"x">>), NumVal(<<"5">>)}
      [] k = "repo" -> {StrVal(REPO), StrVal(<<"x">>)}
      [] k = "branch" -> {StrVal(<<"b">>)}
      [] k = "query" -> {StrVal(<<"x">>), StrVal(ScopeString), NumVal(<<"5">>)}

ArgDicts ==
    UNION { {f \in [D -> UNION {ArgChoices(k) : k \in ArgKeys}] :
                \A k \in D : f[k] \in ArgChoices(k)} : D \in SUBSET ArgKeys }

ArgInputs ==
    {[t |-> "obj", f |-> f] : f \in ArgDicts}
        \cup {[t |-> x, f |-> EmptyMap] : x \in {"absent", "null", "list", "str"}}

ToolsCall(fmt, name, args) ==
    JsonBody(fmt, [top |-> "obj", method |-> "tools/call",
                   params |-> [t |-> "obj", name |-> name, args |-> args]])

SearchInputs ==
    {ToolsCall("compact", ToolName(n),
               [t |-> "obj", f |-> [k \in {"query"} |-> StrVal(q)]]) :
        n \in SEARCH_TOOLS, q \in Queries}

OtherInputs ==
    {EmptyBody, RawBody}
        \cup {JsonBody(fmt, [top |-> x, method |-> "absent", params |-> NoParams]) :
                fmt \in Formats, x \in {"array", "string", "number", "null"}}
        \cup {JsonBody(fmt, [top |-> "obj", method |-> m,
                             params |-> [t |-> "obj",
                                         name |-> ToolName("create_branch"),
                                         args |-> [t |-> "obj", f |-> EmptyMap]]]) :
                fmt \in Formats, m \in {"absent", "initialize", "tools/list"}}
        \cup {JsonBody(fmt, [top |-> "obj", method |-> m,
                             params |-> [t |-> x, name |-> NoName, args |-> NoArgs]]) :
                fmt \in Formats, m \in {"initialize", "tools/call"},
                x \in {"absent", "array", "null", "string"}}

ScopeInputs ==
    SearchInputs
        \cup {ToolsCall(fmt, name, args) :
                fmt \in Formats, name \in NameInputs, args \in ArgInputs}
        \cup OtherInputs

(***************************************************************************)
(* HTTP headers.  A header field is a pair <<name, value>>; a name is a    *)
(* string as it is spelled on the wire, a value is a record: `parts` are   *)
(* the comma-separated pieces of the text (none of which has a comma), or  *)
(* the value is the decimal length of the body `len_of`; `scheme` is the    *)
(* word in front of a credential ("Bearer").  self.headers.items() is a sequence of       *)
(* fields; the dict `headers` of a handler is a sequence of fields with    *)
(* pairwise different names, in insertion order.                           *)
(***************************************************************************)
Text(s) == [scheme |-> "", parts |-> <<s>>, len_of |-> NoneBody]

\* f"Bearer {token}"
Bearer(token) == [scheme |-> "Bearer", parts |-> <<token>>, len_of |-> NoneBody]

\* f"{a},{b}"
CommaJoin(a, b) ==
    [scheme |-> a.scheme, parts |-> a.parts \o b.parts, len_of |-> NoneBody]

\* str(len(body))
LenStr(body) == [scheme |-> "", parts |-> <<>>, len_of |-> body]

\* str.lower() on the header names of the model
LowerTable ==
    [n \in {"X-MCP-Toolsets", "X-MCP-Tools", "X-Mcp-Readonly", "X-MCP-Readonly",
            "X-MCP-LOCKDOWN", "X-MCP-Lockdown", "Authorization", "AUTHORIZATION",
            "Host", "HOST", "Accept", "Content-Length", "X-Api-Key",
            "X-API-KEY", "Anthropic-Beta", "Transfer-Encoding", "Connection",
            "Keep-Alive", "Content-Type", "Server", "Date"} |->
        CASE n = "X-MCP-Toolsets" -> "x-mcp-toolsets"
          [] n = "X-MCP-Tools" -> "x-mcp-tools"
          [] n \in {"X-Mcp-Readonly", "X-MCP-Readonly"} -> "x-mcp-readonly"
          [] n \in {"X-MCP-LOCKDOWN", "X-MCP-Lockdown"} -> "x-mcp-lockdown"
          [] n \in {"Authorization", "AUTHORIZATION"} -> "authorization"
          [] n \in {"Host", "HOST"} -> "host"
          [] n = "Accept" -> "accept"
          [] n = "Content-Length" -> "content-length"
          [] n \in {"X-Api-Key", "X-API-KEY"} -> "x-api-key"
          [] n = "Anthropic-Beta" -> "anthropic-beta"
          [] n = "Transfer-Encoding" -> "transfer-encoding"
          [] n = "Connection" -> "connection"
          [] n = "Keep-Alive" -> "keep-alive"
          [] n = "Content-Type" -> "content-type"
          [] n = "Server" -> "server"
          [] n = "Date" -> "date"]

lower(n) == IF n \in DOMAIN LowerTable THEN LowerTable[n] ELSE n

\* headers[key] = value on a dict
DictSet(d, key, value) ==
    IF \E i \in 1..Len(d) : d[i][1] = key
    THEN [i \in 1..Len(d) |-> IF d[i][1] = key THEN <<key, value>> ELSE d[i]]
    ELSE Append(d, <<key, value>>)

\* the copy loop `for key, value in self.headers.items()` that skips the
\* names (lower-cased) of `skipped`
RECURSIVE CopyHeaders(_, _, _)
CopyHeaders(items, skipped, d) ==
    IF items = <<>> THEN d
    ELSE IF lower(items[1][1]) \in skipped
         THEN CopyHeaders(Tail(items), skipped, d)
         ELSE CopyHeaders(Tail(items), skipped,
                          DictSet(d, items[1][1], items[1][2]))

\* all sequences of at most n elements of S
RECURSIVE SeqsUpTo(_, _)
SeqsUpTo(S, n) ==
    IF n = 0 THEN {<<>>}
    ELSE LET prev == SeqsUpTo(S, n - 1)
         IN  prev \cup {Append(q, x) : q \in prev, x \in S}

(***************************************************************************)
(* Retry settings (github-mcp-proxy.py and github-git-proxy.py)            *)
(***************************************************************************)
MAX_RETRIES == 3

RETRY_DELAYS == <<1, 2, 4>>

\* a mutant of RetryDelay: no backoff, the first delay every time
RetryDelay_no_backoff(attempt) == RETRY_DELAYS[1]

\* RETRY_DELAYS[min(attempt - 1, len(RETRY_DELAYS) - 1)], attempt > 0
RetryDelay(attempt) ==
    RETRY_DELAYS[(IF attempt - 1 < Len(RETRY_DELAYS) - 1
                  THEN attempt - 1 ELSE Len(RETRY_DELAYS) - 1) + 1]

\* what one upstream attempt can end in: an exception of
\* conn.request/getresponse, or a response
UpstreamOutcomes ==
    {[exc |-> TRUE, status |-> 0, streaming |-> FALSE, html |-> FALSE]}
        \cup {[exc |-> FALSE, status |-> st, streaming |-> sm, html |-> FALSE] :
                st \in {200, 404, 500, 503}, sm \in BOOLEAN}
        \cup {[exc |-> FALSE, status |-> 503, streaming |-> FALSE, html |-> TRUE]}

\* no upstream attempt has ended yet
NoOutcome ==
    [exc |-> FALSE, status |-> 0, streaming |-> FALSE, html |-> FALSE,
     inspected |-> FALSE]

\* the end o of an upstream attempt as the retry loop has seen it; inspected
\* says whether the body was read in full before the loop chose between
\* another attempt and the relay
Seen(o, inspected) ==
    [exc |-> o.exc, status |-> o.status, streaming |-> o.streaming,
     html |-> o.html, inspected |-> inspected]

NoResp ==
    [kind |-> "none", status |-> 0, msg |-> NoMsg, err |-> "", attempts |-> 0,
     streaming |-> FALSE]

\* send_error_response(code, message)
ErrorResp(code, msg, err, attempts) ==
    [kind |-> "error", status |-> code, msg |-> msg, err |-> err,
     attempts |-> attempts, streaming |-> FALSE]

\* the upstream response relayed to the VM
RelayResp(status, streaming) ==
    [kind |-> "relay", status |-> status, msg |-> NoMsg, err |-> "",
     attempts |-> 0, streaming |-> streaming]

\* an exception left the handler: the connection is closed without a response
CrashResp ==
    [kind |-> "crash", status |-> 0, msg |-> NoMsg, err |-> "", attempts |-> 0,
     streaming |-> FALSE]

NoReq == [command |-> "", path |-> <<>>, headers |-> <<>>, body |-> EmptyBody]

(***************************************************************************)
(* The MCP proxy (github-mcp-proxy.py)                                     *)
(***************************************************************************)
MCP_HOST == "api.githubcopilot.com"

DEFAULT_TOOLSETS == "repos,issues,pull_requests,git,labels"

\* the methods GitHubMCPProxyHandler defines do_<METHOD> for; for any other
\* method BaseHTTPRequestHandler answers 501 itself
MCP_METHODS == {"GET", "POST", "PUT", "DELETE"}

\* a mutant of MCP_STRIPPED: X-MCP-Tools of the VM is copied
MCP_STRIPPED_without_tools ==
    {"authorization", "host", "x-mcp-toolsets", "x-mcp-readonly",
     "x-mcp-lockdown"}

\* the header names (lower-cased) do_request does not copy from the VM
MCP_STRIPPED ==
    {"authorization", "host", "x-mcp-toolsets", "x-mcp-tools",
     "x-mcp-readonly", "x-mcp-lockdown"}

\* `if body and self.command == "POST"`
ScopeApplies(command, body) == body # NoneBody /\ command = "POST"

\* a mutant of ScopeBlocks: the error of enforce_repo_scope is ignored
ScopeBlocks_never(r) == FALSE

\* `if err:` after enforce_repo_scope
ScopeBlocks(r) == r.out = "reject"

\* the dict `headers` do_request sends upstream
McpUpstreamHeaders(cfg, items, body) ==
    LET d0 == CopyHeaders(items, MCP_STRIPPED, <<>>)
        d1 == DictSet(d0, "Authorization", Text("Bearer GITHUB_MCP_TOKEN"))
        d2 == DictSet(d1, "Host", Text(MCP_HOST))
        d3 == IF body # NoneBody /\ body # EmptyBody
              THEN DictSet(d2, "Content-Length", LenStr(body)) ELSE d2
        d4 == IF cfg.toolsets # ""
              THEN DictSet(d3, "X-MCP-Toolsets", Text(cfg.toolsets)) ELSE d3
        d5 == IF cfg.tools # ""
              THEN DictSet(d4, "X-MCP-Tools", Text(cfg.tools)) ELSE d4
        d6 == IF cfg.readonly
              THEN DictSet(d5, "X-MCP-Readonly", Text("true")) ELSE d5
    IN  IF cfg.lockdown
        THEN DictSet(d6, "X-MCP-Lockdown", Text("true")) ELSE d6

\* a mutant of McpRetryable: a client error is retried too
McpRetryable_client_errors(o) == o.exc \/ (o.status >= 400 /\ ~o.streaming)

\* an attempt that the retry loop of do_request does not relay: an
\* exception, or a status >= 500 on a response without Transfer-Encoding
McpRetryable(o) == o.exc \/ (o.status >= 500 /\ ~o.streaming)

\* upstream.read() before the retry decision: only for a status >= 500 on a
\* response without Transfer-Encoding
McpInspects(o) == ~o.exc /\ o.status >= 500 /\ ~o.streaming

\* last_error after a failed attempt
LastErrorOf(o) ==
    IF o.exc THEN "exception"
    ELSE IF o.html THEN "HTTP 5xx (HTML error page)"
    ELSE "HTTP 5xx"

McpIdle ==
    /\ mcpPc = "idle"
    /\ mcpReq = NoReq
    /\ mcpScope = NoResult
    /\ mcpHeaders = <<>>
    /\ mcpBody = NoneBody
    /\ mcpAttempt = 0
    /\ mcpLastError = ""
    /\ mcpLast = NoOutcome
    /\ mcpUpstream = <<>>
    /\ mcpSleeps = <<>>
    /\ mcpResp = NoResp

\* do_request up to the retry loop, for the request req
McpReceive(req) ==
    /\ mcpPc = "idle"
    /\ mcpReq' = req
    /\ IF req.command \notin MCP_METHODS
       THEN /\ mcpResp' = ErrorResp(501, NoMsg, "", 0)
            /\ mcpPc' = "done"
            /\ UNCHANGED <<mcpScope, mcpHeaders, mcpBody>>
       ELSE
       LET body0 == IF req.body = EmptyBody THEN NoneBody ELSE req.body
           r == IF ScopeApplies(req.command, body0)
                THEN enforce_repo_scope(body0) ELSE NoResult
           body == IF r.out = "none" THEN body0 ELSE r.body
       IN  /\ mcpScope' = r
           /\ IF r.out = "raise"
              THEN /\ mcpResp' = CrashResp
                   /\ mcpPc' = "done"
                   /\ UNCHANGED <<mcpHeaders, mcpBody>>
              ELSE IF ScopeBlocks(r)
              THEN /\ mcpResp' = ErrorResp(403, r.msg, "", 0)
                   /\ mcpPc' = "done"
                   /\ UNCHANGED <<mcpHeaders, mcpBody>>
              ELSE /\ mcpBody' = body
                   /\ mcpHeaders' = McpUpstreamHeaders(mcpCfg, req.headers, body)
                   /\ mcpPc' = "attempt"
                   /\ UNCHANGED mcpResp
    /\ UNCHANGED <<mcpCfg, mcpAttempt, mcpLastError, mcpLast, mcpUpstream,
                   mcpSleeps>>

\* one iteration of the retry loop whose upstream call ends in o; the 502
\* after the last failed iteration is part of that iteration
McpAttempt(o) ==
    /\ mcpPc = "attempt"
    /\ mcpSleeps' = IF mcpAttempt > 0
                    THEN Append(mcpSleeps, RetryDelay(mcpAttempt))
                    ELSE mcpSleeps
    /\ mcpUpstream' = Append(mcpUpstream,
                             [command |-> mcpReq.command,
                              headers |-> mcpHeaders, body |-> mcpBody])
    /\ mcpLast' = Seen(o, McpInspects(o))
    /\ IF McpRetryable(o)
       THEN IF mcpAttempt < MAX_RETRIES
            THEN /\ mcpAttempt' = mcpAttempt + 1
                 /\ mcpLastError' = LastErrorOf(o)
                 /\ UNCHANGED <<mcpPc, mcpResp>>
            ELSE /\ mcpPc' = "done"
                 /\ mcpResp' = ErrorResp(502, NoMsg, LastErrorOf(o), MAX_RETRIES + 1)
                 /\ mcpLastError' = LastErrorOf(o)
                 /\ UNCHANGED mcpAttempt
       ELSE /\ mcpPc' = "done"
            /\ mcpResp' = RelayResp(o.status, o.streaming)
            /\ UNCHANGED <<mcpAttempt, mcpLastError>>
    /\ UNCHANGED <<mcpCfg, mcpReq, mcpScope, mcpHeaders, mcpBody>>

\* do_request has returned: the thread waits for the next request
McpFinish ==
    /\ mcpPc = "done"
    /\ mcpPc' = "idle"
    /\ mcpReq' = NoReq
    /\ mcpScope' = NoResult
    /\ mcpHeaders' = <<>>
    /\ mcpBody' = NoneBody
    /\ mcpAttempt' = 0
    /\ mcpLastError' = ""
    /\ mcpLast' = NoOutcome
    /\ mcpUpstream' = <<>>
    /\ mcpSleeps' = <<>>
    /\ mcpResp' = NoResp
    /\ UNCHANGED mcpCfg

(***************************************************************************)
(* The git proxy (github-git-proxy.py)                                     *)
(***************************************************************************)
\* "Basic " + base64("x-access-token:{TOKEN}")
_BASIC_AUTH == Text("Basic base64(x-access-token:GITHUB_TOKEN)")

GIT_HOST == "github.com"

\* the methods GitProxyHandler defines do_<METHOD> for
GIT_METHODS == {"GET", "POST"}

DotGit == <<".", "g", "i", "t">>

\* the module-level list of path prefixes that get the credential
_AUTHED_PREFIXES(cfg) ==
    IF cfg.owner # <<>> /\ cfg.repo # <<>>
    THEN << <<"/">> \o cfg.owner \o <<"/">> \o cfg.repo \o DotGit \o <<"/">>,
            <<"/">> \o cfg.owner \o <<"/">> \o cfg.repo \o <<"/">> >>
    ELSE <<>>

\* s.split(sep)[0] for a one-character separator
RECURSIVE SplitHead(_, _)
SplitHead(s, sep) ==
    IF s = <<>> \/ Head(s) = sep THEN <<>>
    ELSE <<Head(s)>> \o SplitHead(Tail(s), sep)

\* a mutant of _is_scoped_repo: the path is compared without the added "/"
_is_scoped_repo_no_slash(cfg, path) ==
    /\ _AUTHED_PREFIXES(cfg) # <<>>
    /\ \E i \in 1..Len(_AUTHED_PREFIXES(cfg)) :
          startswith(SplitHead(path, "?"), _AUTHED_PREFIXES(cfg)[i])

\* GitProxyHandler._is_scoped_repo
_is_scoped_repo(cfg, path) ==
    /\ _AUTHED_PREFIXES(cfg) # <<>>
    /\ \E i \in 1..Len(_AUTHED_PREFIXES(cfg)) :
          startswith(SplitHead(path, "?") \o <<"/">>, _AUTHED_PREFIXES(cfg)[i])

\* the header names (lower-cased) proxy() does not copy from the VM
GIT_STRIPPED == {"host", "authorization"}

\* the dict `headers` proxy() sends upstream
GitUpstreamHeaders(items, inject_auth, body) ==
    LET d0 == CopyHeaders(items, GIT_STRIPPED, <<>>)
        d1 == DictSet(d0, "Host", Text(GIT_HOST))
        d2 == IF inject_auth THEN DictSet(d1, "Authorization", _BASIC_AUTH)
              ELSE d1
    IN  IF body # EmptyBody THEN DictSet(d2, "Content-Length", LenStr(body))
        ELSE d2

\* an attempt that the retry loop of proxy() does not relay: an exception,
\* or a status >= 500 (the body is always read in full first)
GitRetryable(o) == o.exc \/ o.status >= 500

\* resp.read() comes before the test of the status, for every response
GitInspects(o) == ~o.exc

GitIdle ==
    /\ gitPc = "idle"
    /\ gitReq = NoReq
    /\ gitHeaders = <<>>
    /\ gitAttempt = 0
    /\ gitLastError = ""
    /\ gitLast = NoOutcome
    /\ gitUpstream = <<>>
    /\ gitSleeps = <<>>
    /\ gitResp = NoResp

\* proxy() up to the retry loop, for the request req
GitReceive(req) ==
    /\ gitPc = "idle"
    /\ gitReq' = req
    /\ IF req.command \notin GIT_METHODS
       THEN /\ gitResp' = ErrorResp(501, NoMsg, "", 0)
            /\ gitPc' = "done"
            /\ UNCHANGED gitHeaders
       ELSE /\ gitHeaders' = GitUpstreamHeaders(req.headers,
                                 _is_scoped_repo(gitCfg, req.path), req.body)
            /\ gitPc' = "attempt"
            /\ UNCHANGED gitResp
    /\ UNCHANGED <<gitCfg, gitAttempt, gitLastError, gitLast, gitUpstream,
                   gitSleeps>>

\* one iteration of the retry loop whose upstream call ends in o
GitAttempt(o) ==
    /\ gitPc = "attempt"
    /\ gitSleeps' = IF gitAttempt > 0
                    THEN Append(gitSleeps, RetryDelay(gitAttempt))
                    ELSE gitSleeps
    /\ gitUpstream' = Append(gitUpstream,
                             [command |-> gitReq.command, path |-> gitReq.path,
                              headers |-> gitHeaders, body |-> gitReq.body])
    /\ gitLast' = Seen(o, GitInspects(o))
    /\ IF GitRetryable(o)
       THEN IF gitAttempt < MAX_RETRIES
            THEN /\ gitAttempt' = gitAttempt + 1
                 /\ gitLastError' = LastErrorOf(o)
                 /\ UNCHANGED <<gitPc, gitResp>>
            ELSE /\ gitPc' = "done"
                 /\ gitResp' = ErrorResp(502, NoMsg, LastErrorOf(o), MAX_RETRIES + 1)
                 /\ gitLastError' = LastErrorOf(o)
                 /\ UNCHANGED gitAttempt
       ELSE /\ gitPc' = "done"
            /\ gitResp' = RelayResp(o.status, FALSE)
            /\ UNCHANGED <<gitAttempt, gitLastError>>
    /\ UNCHANGED <<gitCfg, gitReq, gitHeaders>>

\* proxy() has returned: the thread waits for the next request
GitFinish ==
    /\ gitPc = "done"
    /\ gitPc' = "idle"
    /\ gitReq' = NoReq
    /\ gitHeaders' = <<>>
    /\ gitAttempt' = 0
    /\ gitLastError' = ""
    /\ gitLast' = NoOutcome
    /\ gitUpstream' = <<>>
    /\ gitSleeps' = <<>>
    /\ gitResp' = NoResp
    /\ UNCHANGED gitCfg

(***************************************************************************)
(* The inference proxy (claude-vm-proxy.py): credentials                   *)
(*                                                                         *)
(* The credential file is [state, hasOauth, oauth, other]: state is        *)
(* "missing", "corrupt" (unreadable or not JSON) or "ok" (a JSON object);  *)
(* hasOauth says whether it has the key claudeAiOauth, whose value is      *)
(* oauth; other is the value of the remaining top-level keys.  In an OAuth *)
(* record "" stands for an absent (or empty) string and expiresAt is       *)
(* [t, v] with t in "absent", "num", "numstr", "badstr".                   *)
(***************************************************************************)
API_HOST == "api.anthropic.com"

EXPIRY_BUFFER_SECS == 300

\* expires_in when the token endpoint does not say: data.get("expires_in", 3600)
DEFAULT_EXPIRES_IN == 3600

NoOauth ==
    [accessToken |-> "", refreshToken |-> "",
     expiresAt |-> [t |-> "absent", v |-> 0], subscriptionType |-> ""]

NoAuth == [out |-> "none", token |-> "", is_oauth |-> FALSE]

\* _read_oauth_creds(): [err, creds, oauth]
_read_oauth_creds(file) ==
    IF file.state # "ok"
    THEN [err |-> TRUE, creds |-> file, oauth |-> NoOauth]
    ELSE [err |-> FALSE, creds |-> file,
          oauth |-> IF file.hasOauth THEN file.oauth ELSE NoOauth]

\* a mutant of _is_token_expiring: every record counts as expiring
_is_token_expiring_always(oauth, now) == TRUE

\* _is_token_expiring(oauth) at the time now (ms)
_is_token_expiring(oauth, now) ==
    LET expires_at == oauth.expiresAt IN
    IF expires_at.t = "absent" \/ (expires_at.t = "num" /\ expires_at.v = 0)
    THEN FALSE
    ELSE IF expires_at.t = "badstr" THEN FALSE
    ELSE now + EXPIRY_BUFFER_SECS * 1000 > expires_at.v

\* what the POST to the token endpoint can end in: an exception of the
\* connection or a body that is not JSON, a status other than 200, a 200
\* with a JSON object without access_token, a 200 with JSON that is not an
\* object, a 200 with access_token and an expires_in that is not a number,
\* or a 200 with access_token (and maybe a new refresh_token)
RefreshOutcomes ==
    {[kind |-> k, rotate |-> FALSE, expires_in |-> 0] :
        k \in {"exception", "http_error", "no_access_token", "not_object",
               "bad_expires_in"}}
        \cup {[kind |-> "ok", rotate |-> r, expires_in |-> DEFAULT_EXPIRES_IN] :
                r \in BOOLEAN}

\* a mutant of _refresh_oauth_token: a 200 response is taken as it is, with
\* or without access_token
_refresh_oauth_token_unchecked(refresh_token, ro, now) ==
    IF ro.kind \in {"exception", "http_error"}
    THEN [err |-> TRUE, raised |-> FALSE, oauth |-> NoOauth]
    ELSE [err |-> FALSE, raised |-> FALSE,
          oauth |-> [accessToken |-> IF ro.kind = "ok" THEN "access-refreshed" ELSE "",
                     refreshToken |-> refresh_token,
                     expiresAt |-> [t |-> "num", v |-> now + DEFAULT_EXPIRES_IN * 1000],
                     subscriptionType |-> ""]]

\* a mutant of _refresh_oauth_token: the refresh token that was sent is kept
\* whatever the response holds
_refresh_oauth_token_keeps_sent(refresh_token, ro, now) ==
    IF ro.kind \in {"not_object", "bad_expires_in"}
    THEN [err |-> FALSE, raised |-> TRUE, oauth |-> NoOauth]
    ELSE IF ro.kind # "ok" THEN [err |-> TRUE, raised |-> FALSE, oauth |-> NoOauth]
    ELSE [err |-> FALSE, raised |-> FALSE,
          oauth |-> [accessToken |-> "access-refreshed",
                     refreshToken |-> refresh_token,
                     expiresAt |-> [t |-> "num", v |-> now + ro.expires_in * 1000],
                     subscriptionType |-> ""]]

\* a mutant of _refresh_oauth_token: expires_in of the response is not read
_refresh_oauth_token_default_expiry(refresh_token, ro, now) ==
    IF ro.kind \in {"not_object", "bad_expires_in"}
    THEN [err |-> FALSE, raised |-> TRUE, oauth |-> NoOauth]
    ELSE IF ro.kind # "ok" THEN [err |-> TRUE, raised |-> FALSE, oauth |-> NoOauth]
    ELSE [err |-> FALSE, raised |-> FALSE,
          oauth |-> [accessToken |-> "access-refreshed",
                     refreshToken |-> IF ro.rotate THEN "refresh-rotated"
                                      ELSE refresh_token,
                     expiresAt |-> [t |-> "num", v |-> now + DEFAULT_EXPIRES_IN * 1000],
                     subscriptionType |-> ""]]

\* _refresh_oauth_token(refresh_token) when the exchange ends in ro:
\* [err, raised, oauth]; data.get(...) and int(...) come after the try block,
\* so that their AttributeError, ValueError or TypeError leaves the function
_refresh_oauth_token(refresh_token, ro, now) ==
    IF ro.kind \in {"not_object", "bad_expires_in"}
    THEN [err |-> FALSE, raised |-> TRUE, oauth |-> NoOauth]
    ELSE IF ro.kind # "ok" THEN [err |-> TRUE, raised |-> FALSE, oauth |-> NoOauth]
    ELSE [err |-> FALSE, raised |-> FALSE,
          oauth |-> [accessToken |-> "access-refreshed",
                     refreshToken |-> IF ro.rotate THEN "refresh-rotated"
                                      ELSE refresh_token,
                     expiresAt |-> [t |-> "num", v |-> now + ro.expires_in * 1000],
                     subscriptionType |-> ""]]

\* a mutant of _save_credentials: nothing is written
_save_credentials_not_written(file, new_oauth, saveOk) == file

\* a mutant of _save_credentials: only the OAuth section is written
_save_credentials_only_oauth(file, new_oauth, saveOk) ==
    IF ~saveOk THEN file
    ELSE [state |-> "ok", hasOauth |-> TRUE, oauth |-> new_oauth, other |-> ""]

\* _save_credentials(creds): the file afterwards; an OSError leaves it as it is
_save_credentials(file, new_oauth, saveOk) ==
    IF ~saveOk THEN file
    ELSE [state |-> "ok", hasOauth |-> TRUE, oauth |-> new_oauth,
          other |-> IF file.state = "ok" THEN file.other ELSE ""]

\* _ensure_fresh_token(): [out, token, file, refreshes]
_ensure_fresh_token(file, now, ro, saveOk) ==
    LET rd == _read_oauth_creds(file)
        oauth == rd.oauth
    IN
    IF rd.err THEN [out |-> "err", token |-> "", file |-> file, refreshes |-> 0]
    ELSE IF oauth.accessToken = ""
    THEN [out |-> "err", token |-> "", file |-> file, refreshes |-> 0]
    ELSE IF ~_is_token_expiring(oauth, now)
    THEN [out |-> "ok", token |-> oauth.accessToken, file |-> file, refreshes |-> 0]
    ELSE IF oauth.refreshToken = ""
    THEN [out |-> "err", token |-> "", file |-> file, refreshes |-> 0]
    ELSE
    LET rf == _refresh_oauth_token(oauth.refreshToken, ro, now) IN
    IF rf.raised THEN [out |-> "raise", token |-> "", file |-> file, refreshes |-> 1]
    ELSE IF rf.err THEN [out |-> "err", token |-> "", file |-> file, refreshes |-> 1]
    ELSE
    LET new_oauth == [rf.oauth EXCEPT !.subscriptionType = oauth.subscriptionType]
    IN  [out |-> "ok", token |-> new_oauth.accessToken,
         file |-> _save_credentials(file, new_oauth, saveOk), refreshes |-> 1]

\* get_auth_token(): [out, token, is_oauth, file, refreshes]
get_auth_token(api_key, file, now, ro, saveOk) ==
    IF api_key # ""
    THEN [out |-> "ok", token |-> api_key, is_oauth |-> FALSE, file |-> file,
          refreshes |-> 0]
    ELSE
    LET rd == _read_oauth_creds(file) IN
    IF ~rd.err /\ rd.oauth.accessToken # "" /\ ~_is_token_expiring(rd.oauth, now)
    THEN [out |-> "ok", token |-> rd.oauth.accessToken, is_oauth |-> TRUE,
          file |-> file, refreshes |-> 0]
    ELSE
    LET e == _ensure_fresh_token(file, now, ro, saveOk) IN
    IF e.out \in {"err", "raise"}
    THEN [out |-> e.out, token |-> "", is_oauth |-> FALSE, file |-> e.file,
          refreshes |-> e.refreshes]
    ELSE [out |-> "ok", token |-> e.token, is_oauth |-> TRUE, file |-> e.file,
          refreshes |-> e.refreshes]

(***************************************************************************)
(* The inference proxy: ProxyHandler.do_request                            *)
(***************************************************************************)
\* the methods ProxyHandler defines do_<METHOD> for
INF_METHODS == {"GET", "POST", "PUT", "PATCH", "DELETE", "HEAD", "OPTIONS"}

oauth_beta == "oauth-2025-04-20"

\* `oauth_beta in text` for the pieces of text of the model
HasOauthBeta(part) == part \in {"oauth-2025-04-20", "oauth-2025-04-20-preview"}

\* `oauth_beta in headers[beta_key]`
ValueHasOauthBeta(value) ==
    \E i \in 1..Len(value.parts) : HasOauthBeta(value.parts[i])

\* a mutant of INF_STRIPPED: x-api-key of the VM is copied
INF_STRIPPED_without_api_key == {"authorization", "host"}

\* the header names (lower-cased) do_request does not copy from the VM
INF_STRIPPED == {"x-api-key", "authorization", "host"}

\* headers[key] for a key of the dict
DictGet(d, key) == d[CHOOSE i \in 1..Len(d) : d[i][1] = key][2]

\* the copy loop of do_request: d is `headers`, keys is `header_keys_lower`
RECURSIVE InfCopyHeaders(_, _, _)
InfCopyHeaders(items, d, keys) ==
    IF items = <<>> THEN [headers |-> d, header_keys_lower |-> keys]
    ELSE
    LET key == items[1][1]
        value == items[1][2]
        low == lower(key)
    IN
    IF low \in INF_STRIPPED THEN InfCopyHeaders(Tail(items), d, keys)
    ELSE IF low \in DOMAIN keys
    THEN InfCopyHeaders(Tail(items),
                        DictSet(d, keys[low],
                                CommaJoin(DictGet(d, keys[low]), value)),
                        keys)
    ELSE InfCopyHeaders(Tail(items), DictSet(d, key, value),
                        [k \in DOMAIN keys \cup {low} |->
                            IF k = low THEN key ELSE keys[k]])

\* the dict `headers` do_request sends upstream
InfUpstreamHeaders(items, token, is_oauth) ==
    LET c == InfCopyHeaders(items, <<>>, [k \in {} |-> ""])
        d0 == c.headers
        keys == c.header_keys_lower
        d1 == IF is_oauth
              THEN LET a == DictSet(d0, "Authorization", Bearer(token)) IN
                   IF "anthropic-beta" \in DOMAIN keys
                   THEN LET beta_key == keys["anthropic-beta"] IN
                        IF ~ValueHasOauthBeta(DictGet(a, beta_key))
                        THEN DictSet(a, beta_key,
                                     CommaJoin(DictGet(a, beta_key), Text(oauth_beta)))
                        ELSE a
                   ELSE DictSet(a, "anthropic-beta", Text(oauth_beta))
              ELSE DictSet(d0, "x-api-key", Text(token))
    IN  DictSet(d1, "Host", Text(API_HOST))

InfIdle ==
    /\ infPc = "idle"
    /\ infReq = NoReq
    /\ infAuth = NoAuth
    /\ infHeaders = <<>>
    /\ infRefreshes = 0
    /\ infUpstream = <<>>
    /\ infResp = NoResp

AuthFailed == Msg("Authentication failed. Check proxy logs.", NoName, <<>>, StrVal(<<>>))

\* do_request up to the upstream call, for the request req; ro and saveOk
\* are what a refresh exchange and the write of the file end in
InfReceive(req, ro, saveOk) ==
    /\ infPc = "idle"
    /\ infReq' = req
    /\ IF req.command \notin INF_METHODS
       THEN /\ infResp' = ErrorResp(501, NoMsg, "", 0)
            /\ infPc' = "done"
            /\ UNCHANGED <<infAuth, infHeaders, infRefreshes, credFile>>
       ELSE
       LET a == get_auth_token(infApiKey, credFile, clock, ro, saveOk) IN
           /\ infAuth' = [out |-> a.out, token |-> a.token, is_oauth |-> a.is_oauth]
           /\ credFile' = a.file
           /\ infRefreshes' = a.refreshes
           /\ IF a.out = "raise"
              THEN /\ infResp' = CrashResp
                   /\ infPc' = "done"
                   /\ UNCHANGED infHeaders
              ELSE IF a.out = "err"
              THEN /\ infResp' = ErrorResp(401, AuthFailed, "", 0)
                   /\ infPc' = "done"
                   /\ UNCHANGED infHeaders
              ELSE /\ infHeaders' = InfUpstreamHeaders(req.headers, a.token, a.is_oauth)
                   /\ infPc' = "attempt"
                   /\ UNCHANGED infResp
    /\ UNCHANGED <<infApiKey, clock, infUpstream>>

\* the single upstream call of do_request, which ends in o
InfAttempt(o) ==
    /\ infPc = "attempt"
    /\ infUpstream' = Append(infUpstream,
                             [command |-> infReq.command, path |-> infReq.path,
                              headers |-> infHeaders, body |-> infReq.body])
    /\ infResp' = IF o.exc THEN ErrorResp(502, NoMsg, "exception", 1)
                  ELSE RelayResp(o.status, o.streaming)
    /\ infPc' = "done"
    /\ UNCHANGED <<infApiKey, credFile, clock, infReq, infAuth, infHeaders,
                   infRefreshes>>

\* do_request has returned: the thread waits for the next request
InfFinish ==
    /\ infPc = "done"
    /\ infPc' = "idle"
    /\ infReq' = NoReq
    /\ infAuth' = NoAuth
    /\ infHeaders' = <<>>
    /\ infRefreshes' = 0
    /\ infUpstream' = <<>>
    /\ infResp' = NoResp
    /\ UNCHANGED <<infApiKey, credFile, clock>>

(***************************************************************************)
(* Inputs and configurations of the daemons                                *)
(***************************************************************************)
\* a VM request carries at most MaxVmHeaders header fields of its own
\* choice (besides Content-Length)
MaxVmHeaders == 2

\* a request path is the concatenation of at most MaxPathFrags fragments
MaxPathFrags == 4

\* the Content-Length field of a request with a body
WithContentLength(headers, body) ==
    IF body = EmptyBody THEN headers
    ELSE Append(headers, <<"Content-Length", LenStr(body)>>)

McpConfigs ==
    [toolsets : {"", DEFAULT_TOOLSETS}, tools : {"", "get_file_contents"},
     readonly : BOOLEAN, lockdown : BOOLEAN]

\* the configuration when only token, owner and repo are in the environment
DefaultMcpCfg ==
    [toolsets |-> DEFAULT_TOOLSETS, tools |-> "", readonly |-> FALSE,
     lockdown |-> TRUE]

McpVmHeaders ==
    { <<"X-MCP-Toolsets", Text("all")>>, <<"x-mcp-toolsets", Text("all")>>,
      <<"X-MCP-Tools", Text("delete_everything")>>,
      <<"X-Mcp-Readonly", Text("false")>>, <<"X-MCP-LOCKDOWN", Text("false")>>,
      <<"Authorization", Bearer("vm-token")>>, <<"HOST", Text("evil.example")>>,
      <<"Accept", Text("application/json")>> }

ObjArgs(f) == [t |-> "obj", f |-> f]

McpBodies ==
    { EmptyBody, RawBody,
      ToolsCall("compact", ToolName("create_branch"),
                ObjArgs([k \in {"owner", "repo", "branch"} |->
                           IF k = "owner" THEN StrVal(OWNER)
                           ELSE IF k = "repo" THEN StrVal(REPO)
                           ELSE StrVal(<<"b">>)])),
      ToolsCall("compact", ToolName("list_issues"), ObjArgs(EmptyMap)),
      ToolsCall("py", ToolName("create_branch"),
                ObjArgs([k \in {"owner", "repo"} |->
                           IF k = "owner" THEN StrVal(OWNER) ELSE StrVal(<<"x">>)])),
      ToolsCall("py", ToolName("totally_fake_tool"), ObjArgs(EmptyMap)),
      ToolsCall("py", ToolName("totally_fake_tool"), [t |-> "null", f |-> EmptyMap]),
      ToolsCall("py", ToolName("search_code"),
                ObjArgs([k \in {"query"} |-> StrVal(<<"x">>)])),
      JsonBody("py", [top |-> "array", method |-> "absent", params |-> NoParams]),
      JsonBody("py", [top |-> "obj", method |-> "initialize", params |-> NoParams]) }

McpRequests ==
    {[command |-> "POST", path |-> <<"/">>,
      headers |-> WithContentLength(h, RawBody), body |-> RawBody] :
        h \in SeqsUpTo(McpVmHeaders, MaxVmHeaders)}
    \cup
    {[command |-> c, path |-> <<"/">>,
      headers |-> WithContentLength(h, b), body |-> b] :
        c \in MCP_METHODS \cup {"PATCH"},
        h \in {<<>>, << <<"X-MCP-Tools", Text("delete_everything")>> >>},
        b \in McpBodies}
    \cup
    \* header names are case-insensitive: a client may spell them in lower case
    {[command |-> "POST", path |-> <<"/">>,
      headers |-> << <<"content-length", LenStr(b)>> >>, body |-> b] :
        b \in McpBodies \ {EmptyBody}}

GitConfigs ==
    { [owner |-> <<"o">>, repo |-> <<"r">>],
      [owner |-> <<>>, repo |-> <<"r">>],
      [owner |-> <<>>, repo |-> <<>>] }

DefaultGitCfg == [owner |-> <<"o">>, repo |-> <<"r">>]

PathFragments ==
    { <<"/", "o">>, <<"/", "r">>, DotGit, <<"/">>, <<"?">>, <<"x">> }

RECURSIVE PathsOf(_)
PathsOf(n) ==
    IF n = 0 THEN {<<>>}
    ELSE LET prev == PathsOf(n - 1)
         IN  prev \cup {q \o f : q \in prev, f \in PathFragments}

GitPaths == PathsOf(MaxPathFrags)

GitSamplePaths ==
    { <<"/","o","/","r">> \o DotGit \o <<"/","x">>,
      <<"/","o","/","r">>,
      <<"/","o","/","r">> \o DotGit \o <<"?","x">>,
      <<"/","x","/","r">> \o DotGit \o <<"/">>,
      <<"/","o","/","r","x","/">> }

GitVmHeaders ==
    { <<"Authorization", Text("Basic vm-credential")>>,
      <<"AUTHORIZATION", Text("Basic vm-credential")>>,
      <<"Accept", Text("*/*")>> }

GitRequests(cfg) ==
    (IF cfg.owner # <<>>
     THEN {[command |-> "GET", path |-> p, headers |-> <<>>, body |-> EmptyBody] :
             p \in GitPaths}
     ELSE {})
    \cup
    {[command |-> c, path |-> p, headers |-> WithContentLength(h, b), body |-> b] :
        c \in GIT_METHODS \cup {"PUT"}, p \in GitSamplePaths,
        h \in SeqsUpTo(GitVmHeaders, MaxVmHeaders), b \in {EmptyBody, RawBody}}
    \cup
    {[command |-> "POST", path |-> p,
      headers |-> << <<"content-length", LenStr(RawBody)>> >>, body |-> RawBody] :
        p \in GitSamplePaths}

MissingFile == [state |-> "missing", hasOauth |-> FALSE, oauth |-> NoOauth, other |-> ""]

OkFile(oauth) == [state |-> "ok", hasOauth |-> TRUE, oauth |-> oauth, other |-> "kept"]

\* the credential files a daemon can find, for a clock that starts at 1000000
CredFiles ==
    { MissingFile,
      [MissingFile EXCEPT !.state = "corrupt"],
      [MissingFile EXCEPT !.state = "ok"],
      OkFile([NoOauth EXCEPT !.refreshToken = "refresh-0"]),
      OkFile([accessToken |-> "access-0", refreshToken |-> "refresh-0",
              expiresAt |-> [t |-> "num", v |-> 1000000 + 3600000],
              subscriptionType |-> "max"]),
      OkFile([accessToken |-> "access-0", refreshToken |-> "refresh-0",
              expiresAt |-> [t |-> "numstr", v |-> 1000000 + 100000],
              subscriptionType |-> "max"]),
      OkFile([accessToken |-> "access-0", refreshToken |-> "",
              expiresAt |-> [t |-> "num", v |-> 1000000 - 100000],
              subscriptionType |-> ""]),
      OkFile([accessToken |-> "access-0", refreshToken |-> "",
              expiresAt |-> [t |-> "absent", v |-> 0],
              subscriptionType |-> ""]) }

InfVmHeaders ==
    { <<"Authorization", Bearer("vm-token")>>, <<"AUTHORIZATION", Bearer("vm-token")>>,
      <<"X-Api-Key", Text("vm-key")>>, <<"x-api-key", Text("vm-key")>>,
      <<"HOST", Text("evil.example")>>, <<"Accept", Text("application/json")>>,
      <<"anthropic-beta", Text("beta-1")>>, <<"Anthropic-Beta", Text("beta-2")>>,
      <<"anthropic-beta", Text(oauth_beta)>>,
      <<"anthropic-beta", Text("oauth-2025-04-20-preview")>> }

InfRequests ==
    {[command |-> "POST", path |-> <<"/">>,
      headers |-> WithContentLength(h, RawBody), body |-> RawBody] :
        h \in SeqsUpTo(InfVmHeaders, MaxVmHeaders)}
    \cup
    {[command |-> c, path |-> <<"/">>,
      headers |-> WithContentLength(<<>>, b), body |-> b] :
        c \in INF_METHODS \cup {"TRACE"}, b \in {EmptyBody, RawBody}}

(***************************************************************************)
(* The credential manager under concurrent requests: get_auth_token and    *)
(* _ensure_fresh_token step by step, one handler thread per request        *)
(* (ThreadingMixIn), and the other processes that write the file           *)
(***************************************************************************)
Threads == 1..NumThreads

\* the locals creds/oauth/new_oauth of _ensure_fresh_token
NoLocal == [oauth |-> NoOauth, other |-> "", new_oauth |-> NoOauth]

\* what get_auth_token returned, the return statement that gave it
\* ("api_key", "fast", "recheck" for a return of _ensure_fresh_token before
\* the refresh, "refresh" for one after it; out is "raise" when an
\* exception left it instead), and the status do_request answers at once
\* (401 when it returned an error, nothing otherwise: the request goes on,
\* or the exception ends the handler without a response)
NoThreadOut ==
    [out |-> "none", token |-> "", is_oauth |-> FALSE, via |-> "", status |-> 0]

ThreadOut(out, token, is_oauth, via) ==
    [out |-> out, token |-> token, is_oauth |-> is_oauth, via |-> via,
     status |-> IF out = "err" THEN 401 ELSE 0]

\* one POST to the token endpoint: who made it and when, whether the
\* response is still awaited, what the endpoint answered (kind), whether
\* _refresh_oauth_token returned a record, and the expiresAt of that record
TokenCall(t, now) ==
    [by |-> t, at |-> now, inflight |-> TRUE, kind |-> "", ok |-> FALSE,
     expiresAt |-> 0]

CredIdle ==
    /\ _refresh_lock = 0
    /\ credFlock = 0
    /\ thrPc = [t \in Threads |-> "idle"]
    /\ thrLocal = [t \in Threads |-> NoLocal]
    /\ thrOut = [t \in Threads |-> NoThreadOut]
    /\ tokenCalls = <<>>

\* the threads that may still make a POST
Pending == {t \in Threads : thrPc[t] \in {"wait", "locked"}}

\* a mutant of CredFastPath: ANTHROPIC_API_KEY is not looked at
CredFastPath_without_api_key(t) ==
    /\ thrPc[t] = "idle"
    /\ Len(tokenCalls) + Cardinality(Pending) < MaxTokenCalls
    /\ LET rd == _read_oauth_creds(credFile) IN
       IF ~rd.err /\ rd.oauth.accessToken # ""
               /\ ~_is_token_expiring(rd.oauth, clock)
       THEN /\ thrOut' = [thrOut EXCEPT ![t] =
                            ThreadOut("ok", rd.oauth.accessToken, TRUE, "fast")]
            /\ thrPc' = [thrPc EXCEPT ![t] = "resolved"]
       ELSE /\ thrPc' = [thrPc EXCEPT ![t] = "wait"]
            /\ UNCHANGED thrOut
    /\ UNCHANGED <<_refresh_lock, credFlock, thrLocal, tokenCalls, credFile, clock>>

\* get_auth_token up to `with _refresh_lock`: the API key, else the fast path
CredFastPath(t) ==
    /\ thrPc[t] = "idle"
    /\ Len(tokenCalls) + Cardinality(Pending) < MaxTokenCalls
    /\ LET rd == _read_oauth_creds(credFile) IN
       IF infApiKey # ""
       THEN /\ thrOut' = [thrOut EXCEPT ![t] = ThreadOut("ok", infApiKey, FALSE, "api_key")]
            /\ thrPc' = [thrPc EXCEPT ![t] = "resolved"]
       ELSE IF ~rd.err /\ rd.oauth.accessToken # ""
               /\ ~_is_token_expiring(rd.oauth, clock)
       THEN /\ thrOut' = [thrOut EXCEPT ![t] =
                            ThreadOut("ok", rd.oauth.accessToken, TRUE, "fast")]
            /\ thrPc' = [thrPc EXCEPT ![t] = "resolved"]
       ELSE /\ thrPc' = [thrPc EXCEPT ![t] = "wait"]
            /\ UNCHANGED thrOut
    /\ UNCHANGED <<_refresh_lock, credFlock, thrLocal, tokenCalls, credFile, clock>>

\* a mutant of CredLock: the slow path is entered without the mutex
CredLock_no_mutex(t) ==
    /\ thrPc[t] = "wait"
    /\ _refresh_lock' = t
    /\ thrPc' = [thrPc EXCEPT ![t] = "locked"]
    /\ UNCHANGED <<credFlock, thrLocal, thrOut, tokenCalls, credFile, clock>>

\* `with _refresh_lock`: the mutex is acquired
CredLock(t) ==
    /\ thrPc[t] = "wait"
    /\ _refresh_lock = 0
    /\ _refresh_lock' = t
    /\ thrPc' = [thrPc EXCEPT ![t] = "locked"]
    /\ UNCHANGED <<credFlock, thrLocal, thrOut, tokenCalls, credFile, clock>>

\* _ensure_fresh_token up to the POST of _refresh_oauth_token: the re-read,
\* its checks and, when the record is still expiring, the request sent
CredReread(t) ==
    /\ thrPc[t] = "locked"
    /\ LET rd == _read_oauth_creds(credFile)
           oauth == rd.oauth
           fails == rd.err \/ oauth.accessToken = ""
           fresh == ~fails /\ ~_is_token_expiring(oauth, clock)
       IN
       IF fails \/ (~fresh /\ oauth.refreshToken = "")
       THEN /\ thrOut' = [thrOut EXCEPT ![t] = ThreadOut("err", "", FALSE, "recheck")]
            /\ thrPc' = [thrPc EXCEPT ![t] = "resolved"]
            /\ _refresh_lock' = 0
            /\ UNCHANGED <<thrLocal, tokenCalls>>
       ELSE IF fresh
       THEN /\ thrOut' = [thrOut EXCEPT ![t] =
                            ThreadOut("ok", oauth.accessToken, TRUE, "recheck")]
            /\ thrPc' = [thrPc EXCEPT ![t] = "resolved"]
            /\ _refresh_lock' = 0
            /\ UNCHANGED <<thrLocal, tokenCalls>>
       ELSE /\ thrLocal' = [thrLocal EXCEPT ![t] =
                              [oauth |-> oauth, other |-> rd.creds.other,
                               new_oauth |-> NoOauth]]
            /\ tokenCalls' = Append(tokenCalls, TokenCall(t, clock))
            /\ thrPc' = [thrPc EXCEPT ![t] = "post"]
            /\ UNCHANGED <<thrOut, _refresh_lock>>
    /\ UNCHANGED <<credFlock, credFile, clock>>

\* the index of the POST of thread t that is still awaited
InflightOf(t) ==
    CHOOSE i \in 1..Len(tokenCalls) : tokenCalls[i].by = t /\ tokenCalls[i].inflight

\* the response ro of the token endpoint arrives: the rest of
\* _refresh_oauth_token, then _ensure_fresh_token up to _save_credentials
CredPostDone(t, ro) ==
    /\ thrPc[t] = "post"
    /\ LET rf == _refresh_oauth_token(thrLocal[t].oauth.refreshToken, ro, clock)
           new_oauth == [rf.oauth EXCEPT
                           !.subscriptionType = thrLocal[t].oauth.subscriptionType]
           i == InflightOf(t)
       IN
       IF rf.err \/ rf.raised
       THEN /\ tokenCalls' = [tokenCalls EXCEPT
                                ![i] = [@ EXCEPT !.inflight = FALSE, !.kind = ro.kind]]
            /\ thrOut' = [thrOut EXCEPT ![t] =
                            ThreadOut(IF rf.raised THEN "raise" ELSE "err", "",
                                      FALSE, "refresh")]
            /\ thrPc' = [thrPc EXCEPT ![t] = "resolved"]
            /\ _refresh_lock' = 0
            /\ UNCHANGED thrLocal
       ELSE /\ tokenCalls' = [tokenCalls EXCEPT
                                ![i] = [@ EXCEPT !.inflight = FALSE,
                                          !.kind = ro.kind, !.ok = TRUE,
                                          !.expiresAt = new_oauth.expiresAt.v]]
            /\ thrLocal' = [thrLocal EXCEPT ![t].new_oauth = new_oauth]
            /\ thrPc' = [thrPc EXCEPT ![t] = "save"]
            /\ UNCHANGED <<thrOut, _refresh_lock>>
    /\ UNCHANGED <<credFlock, credFile, clock>>

\* the end of _ensure_fresh_token and of get_auth_token after
\* _save_credentials: the new access token is returned, the mutex released
CredResolveNew(t) ==
    /\ thrOut' = [thrOut EXCEPT ![t] =
                    ThreadOut("ok", thrLocal[t].new_oauth.accessToken, TRUE,
                              "refresh")]
    /\ thrPc' = [thrPc EXCEPT ![t] = "resolved"]
    /\ _refresh_lock' = 0

\* _save_credentials up to flock(LOCK_EX); an OSError of os.open (openOk
\* false) abandons the write
CredSaveLock(t, openOk) ==
    /\ thrPc[t] = "save"
    /\ IF openOk
       THEN /\ credFlock = 0
            /\ credFlock' = t
            /\ thrPc' = [thrPc EXCEPT ![t] = "flocked"]
            /\ UNCHANGED <<thrOut, _refresh_lock>>
       ELSE /\ CredResolveNew(t)
            /\ UNCHANGED credFlock
    /\ UNCHANGED <<thrLocal, tokenCalls, credFile, clock>>

\* _save_credentials under the flock: the re-read, the merge, the write of
\* the temporary file and os.replace (an OSError when saveOk is false), then
\* the unlock
CredSaveWrite(t, saveOk) ==
    /\ thrPc[t] = "flocked"
    /\ credFile' = _save_credentials(credFile, thrLocal[t].new_oauth, saveOk)
    /\ credFlock' = 0
    /\ CredResolveNew(t)
    /\ UNCHANGED <<thrLocal, tokenCalls, clock>>

\* do_request goes on with the result (or has answered 401) and returns
CredFinish(t) ==
    /\ thrPc[t] = "resolved"
    /\ thrPc' = [thrPc EXCEPT ![t] = "idle"]
    /\ thrLocal' = [thrLocal EXCEPT ![t] = NoLocal]
    /\ thrOut' = [thrOut EXCEPT ![t] = NoThreadOut]
    /\ UNCHANGED <<_refresh_lock, credFlock, tokenCalls, credFile, clock>>

\* the record another process (the Claude CLI on the host) writes when it
\* refreshes the token itself
HostOauth(now) ==
    [accessToken |-> "access-host", refreshToken |-> "refresh-host",
     expiresAt |-> [t |-> "num", v |-> now + DEFAULT_EXPIRES_IN * 1000],
     subscriptionType |-> "max"]

\* another process replaces the OAuth record, under the flock
HostRefresh ==
    /\ credFlock = 0
    /\ credFile' = [state |-> "ok", hasOauth |-> TRUE, oauth |-> HostOauth(clock),
                    other |-> IF credFile.state = "ok" THEN credFile.other ELSE ""]
    /\ credFile' # credFile
    /\ UNCHANGED <<credVars, clock>>

\* another process changes another top-level key, under the flock
HostTouch ==
    /\ credFlock = 0
    /\ credFile.state = "ok"
    /\ credFile.other # "changed"
    /\ credFile' = [credFile EXCEPT !.other = "changed"]
    /\ UNCHANGED <<credVars, clock>>

\* the time between two looks at the wall clock
TickMs == (DEFAULT_EXPIRES_IN - 200) * 1000

ClockStart == 1000 * 1000

\* the wall clock advances
Tick ==
    /\ clock < ClockStart + MaxTicks * TickMs
    /\ clock' = clock + TickMs
    /\ UNCHANGED <<credVars, credFile>>

(***************************************************************************)
(* Direct calls of the functions of claude-vm-proxy.py                     *)
(***************************************************************************)
NoCall == [none |-> TRUE]

CallIdle ==
    /\ callFn = "none"
    /\ callArgs = NoCall
    /\ callRet = NoCall

\* _is_token_expiring(oauth), time.time() reading now (ms)
Call_is_token_expiring ==
    /\ callFn = "_is_token_expiring"
    /\ callRet = NoCall
    /\ callRet' = [value |-> _is_token_expiring(callArgs.oauth, callArgs.now)]
    /\ UNCHANGED <<callFn, callArgs>>

\* _refresh_oauth_token(refresh_token): the call is entered at the time
\* callArgs.before, the exchange ends in callArgs.ro after d1 ms, which is
\* when line 131 reads time.time(), and the caller has the result d2 ms
\* later
Call_refresh_oauth_token(d1, d2) ==
    /\ callFn = "_refresh_oauth_token"
    /\ callRet = NoCall
    /\ callRet' =
          [result |-> _refresh_oauth_token(callArgs.refresh_token, callArgs.ro,
                                          callArgs.before + d1),
           after |-> callArgs.before + d1 + d2]
    /\ UNCHANGED <<callFn, callArgs>>

(***************************************************************************)
(* The life of a daemon process: main(), the signal handlers and           *)
(* socketserver's serve_forever() and shutdown()                           *)
(***************************************************************************)
\* the connection threads of the daemon (ThreadingMixIn: one per request)
Conns == 1..NumConns

\* which of the token, owner and repo variables are set in the environment
NoEnv == [token |-> FALSE, owner |-> FALSE, repo |-> FALSE]

\* no process has been started
ProcIdle ==
    /\ procDaemon = "none"
    /\ procEnv = NoEnv
    /\ mainPc = "off"
    /\ procStdout = <<>>
    /\ procStderr = <<>>
    /\ exitCode = -1
    /\ shutdown_request = FALSE
    /\ is_shut_down = FALSE
    /\ listening = FALSE
    /\ signals = 0
    /\ connPc = [c \in Conns |-> "none"]

\* a mutant of main_config_error: the MCP proxy asks for the token only
main_config_error_token_only(daemon, env, auth_out) ==
    IF daemon = "inference"
    THEN (IF auth_out = "ok" THEN "" ELSE "auth")
    ELSE IF ~env.token THEN "token" ELSE ""

\* the checks main() makes before it creates the server: "" when they pass,
\* else what the message on standard error is about.  The inference proxy
\* calls get_auth_token(), whose result is auth_out (an exception that
\* leaves it is printed as a traceback); the MCP proxy asks for the token,
\* then for owner and repo; the git proxy asks for the token only
main_config_error(daemon, env, auth_out) ==
    IF daemon = "inference"
    THEN (IF auth_out = "ok" THEN "" ELSE "auth")
    ELSE IF ~env.token THEN "token"
    ELSE IF daemon = "mcp" /\ (~env.owner \/ ~env.repo) THEN "owner_repo"
    ELSE ""

\* main() up to the creation of the server; ro and saveOk are what a
\* refresh exchange and the write of the file end in
ProcValidate(ro, saveOk) ==
    /\ mainPc = "start"
    /\ LET a == IF procDaemon = "inference"
                THEN get_auth_token(infApiKey, credFile, clock, ro, saveOk)
                ELSE [out |-> "ok", token |-> "", is_oauth |-> FALSE,
                      file |-> credFile, refreshes |-> 0]
           e == main_config_error(procDaemon, procEnv, a.out)
       IN  /\ infAuth' = IF procDaemon = "inference"
                         THEN [out |-> a.out, token |-> a.token,
                               is_oauth |-> a.is_oauth]
                         ELSE infAuth
           /\ credFile' = a.file
           /\ IF e # ""
              THEN /\ procStderr' = Append(procStderr, e)
                   /\ exitCode' = 1
                   /\ mainPc' = "exited"
              ELSE /\ mainPc' = "validated"
                   /\ UNCHANGED <<procStderr, exitCode>>
    /\ UNCHANGED <<procDaemon, procEnv, procStdout, shutdown_request,
                   is_shut_down, listening, signals, connPc>>

\* the server is created on 127.0.0.1 and its port is printed
ProcListen ==
    /\ mainPc = "validated"
    /\ listening' = TRUE
    /\ procStdout' = Append(procStdout, "port")
    /\ mainPc' = "printed"
    /\ UNCHANGED <<procDaemon, procEnv, procStderr, exitCode, shutdown_request,
                   is_shut_down, signals, connPc, infAuth, credFile>>

\* signal.signal(SIGTERM, ...), signal.signal(SIGINT, ...), then
\* server.serve_forever(), which begins with __is_shut_down.clear()
ProcServe ==
    /\ mainPc = "printed"
    /\ is_shut_down' = FALSE
    /\ mainPc' = "serving"
    /\ UNCHANGED <<procDaemon, procEnv, procStdout, procStderr, exitCode,
                   shutdown_request, listening, signals, connPc, infAuth, credFile>>

\* the loop of serve_forever accepts a connection and starts its thread
ProcAccept(c) ==
    /\ mainPc = "serving"
    /\ ~shutdown_request
    /\ connPc[c] \in {"none", "done"}
    /\ connPc' = [connPc EXCEPT ![c] = "handling"]
    /\ UNCHANGED <<procDaemon, procEnv, mainPc, procStdout, procStderr, exitCode,
                   shutdown_request, is_shut_down, listening, signals, infAuth,
                   credFile>>

\* a connection thread has relayed its response to the end
ConnFinish(c) ==
    /\ connPc[c] = "handling"
    /\ mainPc # "exited"
    /\ connPc' = [connPc EXCEPT ![c] = "done"]
    /\ UNCHANGED <<procDaemon, procEnv, mainPc, procStdout, procStderr, exitCode,
                   shutdown_request, is_shut_down, listening, signals, infAuth,
                   credFile>>

\* SIGTERM or SIGINT is delivered to the serving daemon: the handler runs on
\* the main thread, inside serve_forever.  The git proxy's handler is
\* sys.exit(0), which raises SystemExit there; the handler of the other two
\* is server.shutdown(): __shutdown_request = True, then
\* __is_shut_down.wait()
ProcSignal ==
    /\ signals < MaxSignals
    /\ mainPc \in {"serving", "shutdown_wait"}
    /\ signals' = signals + 1
    /\ IF procDaemon = "git"
       THEN /\ mainPc' = "exiting"
            /\ UNCHANGED shutdown_request
       ELSE /\ shutdown_request' = TRUE
            /\ mainPc' = IF is_shut_down THEN mainPc ELSE "shutdown_wait"
    /\ UNCHANGED <<procDaemon, procEnv, procStdout, procStderr, exitCode,
                   is_shut_down, listening, connPc, infAuth, credFile>>

\* the main thread goes on: a wait on __is_shut_down returns once the event
\* is set; serve_forever ends when its loop sees __shutdown_request or when
\* SystemExit passes through it, its `finally` resets the flag and sets the
\* event, and main() ends.  The connection threads are daemon threads
\* (daemon_threads = True): the interpreter exits without waiting for them
ProcContinue ==
    /\ mainPc \in {"shutdown_wait", "serving", "exiting"}
    /\ IF mainPc = "shutdown_wait"
       THEN /\ is_shut_down
            /\ mainPc' = "serving"
            /\ UNCHANGED <<shutdown_request, is_shut_down, exitCode, listening,
                           connPc>>
       ELSE /\ mainPc = "exiting" \/ shutdown_request
            /\ shutdown_request' = FALSE
            /\ is_shut_down' = TRUE
            /\ mainPc' = "exited"
            /\ exitCode' = 0
            /\ listening' = FALSE
            /\ connPc' = [c \in Conns |->
                            IF connPc[c] = "handling" THEN "aborted" ELSE connPc[c]]
    /\ UNCHANGED <<procDaemon, procEnv, procStdout, procStderr, signals, infAuth,
                   credFile>>

(***************************************************************************)
(* The credential file on disk (claude-vm-proxy.py): _save_credentials     *)
(* step by step, by the processes and threads that write the file, and     *)
(* the read of _read_oauth_creds that get_auth_token makes with no lock.   *)
(* A file name refers to an inode; os.replace makes CREDENTIALS_PATH refer *)
(* to the inode of the temporary file in one step; an open file keeps      *)
(* referring to the inode it was opened on.                                *)
(***************************************************************************)
\* the writers of the file, one call of _save_credentials each
NumWriters == 2

\* the lock-free reads one reader makes
MaxReads == 2

Writers == 1..NumWriters

\* the content of a file: a complete JSON document whose claudeAiOauth is
\* the record of writer `oauth` (0: the record the file had at the start)
\* and whose other keys are `other`; or the first part of one; or nothing
Doc(oauth, other) == [kind |-> "doc", oauth |-> oauth, other |-> other]

PartOf(doc) == [kind |-> "partial", oauth |-> doc.oauth, other |-> doc.other]

Empty == [kind |-> "empty", oauth |-> 0, other |-> ""]

\* no file of that name
NoFile == [kind |-> "missing", oauth |-> 0, other |-> ""]

\* the content a file name refers to
FileAt(ino) == IF ino = 0 THEN NoFile ELSE inodes[ino]

StoreIdle ==
    /\ inodes = <<Doc(0, "kept")>>
    /\ pathIno = 1
    /\ tmpIno = 0
    /\ lockHolder = 0
    /\ savePc = [w \in Writers |-> "idle"]
    /\ saveFd = [w \in Writers |-> 0]
    /\ disk_creds = [w \in Writers |-> NoFile]
    /\ saveFailed = [w \in Writers |-> FALSE]
    /\ readPc = "idle"
    /\ readFd = 0
    /\ readFrom = 0
    /\ readLog = <<>>
    /\ pathLog = <<Doc(0, "kept")>>

\* os.open(lock_path, O_CREAT | O_RDWR): an OSError (ok false) goes to the
\* handler of line 165 without the lock having been taken
SaveOpenLock(w, ok) ==
    /\ savePc[w] = "idle"
    /\ savePc' = [savePc EXCEPT ![w] = IF ok THEN "opened" ELSE "except"]
    /\ saveFailed' = [saveFailed EXCEPT ![w] = ~ok]
    /\ UNCHANGED <<inodes, pathIno, tmpIno, lockHolder, saveFd, disk_creds,
                   readPc, readFd, readFrom, readLog, pathLog>>

\* fcntl.flock(fd, LOCK_EX): waits until no other holder
SaveFlock(w) ==
    /\ savePc[w] = "opened"
    /\ lockHolder = 0
    /\ lockHolder' = w
    /\ savePc' = [savePc EXCEPT ![w] = "flocked"]
    /\ UNCHANGED <<inodes, pathIno, tmpIno, saveFd, disk_creds, saveFailed,
                   readPc, readFd, readFrom, readLog, pathLog>>

\* the re-read under the lock and disk_creds["claudeAiOauth"] = ...: the
\* other keys of the file are kept, {} stands in for a missing or
\* unparsable file
SaveMerge(w) ==
    /\ savePc[w] = "flocked"
    /\ LET cur == FileAt(pathIno) IN
       disk_creds' = [disk_creds EXCEPT ![w] =
                        Doc(w, IF cur.kind = "doc" THEN cur.other ELSE "")]
    /\ savePc' = [savePc EXCEPT ![w] = "merged"]
    /\ UNCHANGED <<inodes, pathIno, tmpIno, lockHolder, saveFd, saveFailed,
                   readPc, readFd, readFrom, readLog, pathLog>>

\* a mutant of SaveOpenTmp: the document is written over CREDENTIALS_PATH
\* itself
SaveOpenTmp_in_place(w, ok) ==
    /\ savePc[w] = "merged"
    /\ IF ok /\ pathIno # 0
       THEN /\ inodes' = [inodes EXCEPT ![pathIno] = Empty]
            /\ saveFd' = [saveFd EXCEPT ![w] = pathIno]
            /\ savePc' = [savePc EXCEPT ![w] = "tmp_open"]
            /\ UNCHANGED <<tmpIno, saveFailed>>
       ELSE /\ saveFailed' = [saveFailed EXCEPT ![w] = TRUE]
            /\ savePc' = [savePc EXCEPT ![w] = "finally"]
            /\ UNCHANGED <<inodes, tmpIno, saveFd>>
    /\ UNCHANGED <<pathIno, lockHolder, disk_creds, readPc, readFd, readFrom,
                   readLog, pathLog>>

\* open(tmp_path, "w"): the temporary file is created, or truncated when a
\* file of that name is there; an OSError (ok false) leaves through finally
SaveOpenTmp(w, ok) ==
    /\ savePc[w] = "merged"
    /\ IF ok
       THEN IF tmpIno = 0
            THEN /\ inodes' = Append(inodes, Empty)
                 /\ tmpIno' = Len(inodes) + 1
                 /\ saveFd' = [saveFd EXCEPT ![w] = Len(inodes) + 1]
                 /\ savePc' = [savePc EXCEPT ![w] = "tmp_open"]
                 /\ UNCHANGED saveFailed
            ELSE /\ inodes' = [inodes EXCEPT ![tmpIno] = Empty]
                 /\ saveFd' = [saveFd EXCEPT ![w] = tmpIno]
                 /\ savePc' = [savePc EXCEPT ![w] = "tmp_open"]
                 /\ UNCHANGED <<tmpIno, saveFailed>>
       ELSE /\ saveFailed' = [saveFailed EXCEPT ![w] = TRUE]
            /\ savePc' = [savePc EXCEPT ![w] = "finally"]
            /\ UNCHANGED <<inodes, tmpIno, saveFd>>
    /\ UNCHANGED <<pathIno, lockHolder, disk_creds, readPc, readFd, readFrom,
                   readLog, pathLog>>

\* json.dump(disk_creds, f): the first part of the text reaches the file
SaveDump(w) ==
    /\ savePc[w] = "tmp_open"
    /\ inodes' = [inodes EXCEPT ![saveFd[w]] = PartOf(disk_creds[w])]
    /\ savePc' = [savePc EXCEPT ![w] = "dumping"]
    /\ UNCHANGED <<pathIno, tmpIno, lockHolder, saveFd, disk_creds, saveFailed,
                   readPc, readFd, readFrom, readLog, pathLog>>

\* the end of the `with open(tmp_path, "w")` block: the rest of the text is
\* written and the file closed; an OSError (ok false: the disk is full)
\* leaves through finally with the file as it is
SaveClose(w, ok) ==
    /\ savePc[w] = "dumping"
    /\ IF ok
       THEN /\ inodes' = [inodes EXCEPT ![saveFd[w]] = disk_creds[w]]
            /\ savePc' = [savePc EXCEPT ![w] = "dumped"]
            /\ UNCHANGED saveFailed
       ELSE /\ saveFailed' = [saveFailed EXCEPT ![w] = TRUE]
            /\ savePc' = [savePc EXCEPT ![w] = "finally"]
            /\ UNCHANGED inodes
    /\ UNCHANGED <<pathIno, tmpIno, lockHolder, saveFd, disk_creds, readPc,
                   readFd, readFrom, readLog, pathLog>>

\* os.chmod(tmp_path, 0o600) and os.replace(tmp_path, CREDENTIALS_PATH):
\* FileNotFoundError when no file has the temporary name any more
SaveReplace(w) ==
    /\ savePc[w] = "dumped"
    /\ IF tmpIno # 0
       THEN /\ pathIno' = tmpIno
            /\ tmpIno' = 0
            /\ pathLog' = Append(pathLog, FileAt(tmpIno))
            /\ UNCHANGED saveFailed
       ELSE /\ saveFailed' = [saveFailed EXCEPT ![w] = TRUE]
            /\ UNCHANGED <<pathIno, tmpIno, pathLog>>
    /\ savePc' = [savePc EXCEPT ![w] = "finally"]
    /\ UNCHANGED <<inodes, lockHolder, saveFd, disk_creds, readPc, readFd,
                   readFrom, readLog>>

\* finally: flock(fd, LOCK_UN) and os.close(fd)
SaveUnlock(w) ==
    /\ savePc[w] = "finally"
    /\ lockHolder' = 0
    /\ savePc' = [savePc EXCEPT ![w] = IF saveFailed[w] THEN "except" ELSE "done"]
    /\ UNCHANGED <<inodes, pathIno, tmpIno, saveFd, disk_creds, saveFailed,
                   readPc, readFd, readFrom, readLog, pathLog>>

\* except OSError: the warning, and os.unlink(tmp_path) of whatever file
\* has the temporary name now
SaveExcept(w) ==
    /\ savePc[w] = "except"
    /\ tmpIno' = 0
    /\ savePc' = [savePc EXCEPT ![w] = "done"]
    /\ UNCHANGED <<inodes, pathIno, lockHolder, saveFd, disk_creds, saveFailed,
                   readPc, readFd, readFrom, readLog, pathLog>>

\* _read_oauth_creds: open(CREDENTIALS_PATH, "r"), with no lock held
ReadOpen ==
    /\ readPc = "idle"
    /\ Len(readLog) < MaxReads
    /\ readFd' = pathIno
    /\ readFrom' = Len(pathLog)
    /\ readPc' = "open"
    /\ UNCHANGED <<inodes, pathIno, tmpIno, lockHolder, savePc, saveFd,
                   disk_creds, saveFailed, readLog, pathLog>>

\* _read_oauth_creds: json.load(f) reads what the open file holds now
ReadLoad ==
    /\ readPc = "open"
    /\ readLog' = Append(readLog, [got |-> FileAt(readFd), from |-> readFrom,
                                   to |-> Len(pathLog)])
    /\ readPc' = "idle"
    /\ readFd' = 0
    /\ UNCHANGED <<inodes, pathIno, tmpIno, lockHolder, savePc, saveFd,
                   disk_creds, saveFailed, readFrom, pathLog>>

(***************************************************************************)
(* One VM connection of a proxy, as bytes on the wire: the requests the VM *)
(* sends on it one after the other (HTTP/1.1 keep-alive), what the handler *)
(* reads of them, and what it writes back, up to the framing of a relayed  *)
(* upstream response.                                                      *)
(***************************************************************************)
\* upstream.read(8192)
READ_SIZE == 8192

\* the reads of one streaming response that return fewer bytes than asked
MaxShortReads == 2

\* the connections one daemon serves one after the other
MaxWireConns == 2

\* the digits of n in base b, most significant first
RECURSIVE ToBase(_, _)
ToBase(n, b) ==
    LET digit == <<"0","1","2","3","4","5","6","7","8","9",
                   "a","b","c","d","e","f">>[(n % b) + 1]
    IN  IF n < b THEN <<digit>> ELSE Append(ToBase(n \div b, b), digit)

\* a mutant of Hex: the length is written in decimal
Hex_decimal(n) == ToBase(n, 10)

\* f"{len(data):x}"
Hex(n) == ToBase(n, 16)

\* str(len(body_data))
Dec(n) == ToBase(n, 10)

\* a header value that is a word, and one that is a decimal number
Word(s) == [s |-> s, digits |-> <<>>]

Number(n) == [s |-> "", digits |-> Dec(n)]

NoField == <<"", Word("")>>

\* what is written to self.wfile, piece by piece: the status line, a
\* header line, the empty line that ends the headers, a run of text, a
\* CRLF, and bytes from..to of a body (src says of which: the upstream
\* response's, or the error document of the proxy)
StatusLine(code) ==
    [t |-> "status", code |-> code, field |-> NoField, text |-> <<>>,
     src |-> "", from |-> 0, to |-> 0]

HeaderLine(field) ==
    [t |-> "header", code |-> 0, field |-> field, text |-> <<>>,
     src |-> "", from |-> 0, to |-> 0]

EndHeaders ==
    [t |-> "end_headers", code |-> 0, field |-> NoField, text |-> <<>>,
     src |-> "", from |-> 0, to |-> 0]

TextItem(text) ==
    [t |-> "text", code |-> 0, field |-> NoField, text |-> text,
     src |-> "", from |-> 0, to |-> 0]

Crlf ==
    [t |-> "crlf", code |-> 0, field |-> NoField, text |-> <<>>,
     src |-> "", from |-> 0, to |-> 0]

DataItem(src, from, to) ==
    [t |-> "data", code |-> 0, field |-> NoField, text |-> <<>>,
     src |-> src, from |-> from, to |-> to]

\* the bytes 1..n of a body, nothing for an empty body
BodyItems(src, n) == IF n = 0 THEN <<>> ELSE <<DataItem(src, 1, n)>>

\* BaseHTTPRequestHandler.send_response(code): the status line and the
\* Server and Date fields
send_response(code) ==
    <<StatusLine(code), HeaderLine(<<"Server", Word("BaseHTTP")>>),
      HeaderLine(<<"Date", Word("now")>>)>>

HeaderLines(fields) == [i \in 1..Len(fields) |-> HeaderLine(fields[i])]

\* len(body) of the JSON error document of send_error_response
ErrorBodyLen(code) == IF code = 401 THEN 89 ELSE 113

\* send_error_response(code, message) of the inference and MCP proxies
send_error_response(code) ==
    send_response(code)
        \o <<HeaderLine(<<"Content-Type", Word("application/json")>>),
             HeaderLine(<<"Content-Length", Number(ErrorBodyLen(code))>>),
             EndHeaders>>
        \o BodyItems("error", ErrorBodyLen(code))

\* BaseHTTPRequestHandler.send_error(code, message): an HTML page, and
\* `Connection: close`, which ends the connection after the response
send_error(code) ==
    send_response(code)
        \o <<HeaderLine(<<"Connection", Word("close")>>),
             HeaderLine(<<"Content-Type", Word("text/html;charset=utf-8")>>),
             HeaderLine(<<"Content-Length", Number(358)>>),
             EndHeaders>>
        \o BodyItems("error", 358)

\* the upstream header names (lower-cased) the inference and MCP proxies
\* do not relay
HOP_HEADERS == {"transfer-encoding", "content-length", "connection", "keep-alive"}

\* the upstream header names (lower-cased) the git proxy does not relay
GIT_HOP_HEADERS == {"transfer-encoding", "connection", "keep-alive"}

\* the loop `for key, value in upstream_headers` in front of send_header
RelayHeaders(fields, hop) ==
    SelectSeq(fields, LAMBDA f : lower(f[1]) \notin hop)

\* is_streaming: some upstream field is named Transfer-Encoding
IsStreaming(fields) ==
    \E i \in 1..Len(fields) : lower(fields[i][1]) = "transfer-encoding"

\* the streaming branch up to end_headers()
StreamHead(up) ==
    send_response(up.status)
        \o HeaderLines(RelayHeaders(up.headers, HOP_HEADERS))
        \o <<HeaderLine(<<"Transfer-Encoding", Word("chunked")>>), EndHeaders>>

\* one turn of `while True`: the size line, the data, the CRLF
StreamChunk(from, n) ==
    <<TextItem(Hex(n)), Crlf, DataItem("upstream", from, from + n - 1), Crlf>>

\* self.wfile.write(b"0\r\n\r\n")
StreamEnd == <<TextItem(<<"0">>), Crlf, Crlf>>

\* the non-streaming branch: the whole body behind a Content-Length
BufferedRelay(up, hop) ==
    send_response(up.status)
        \o HeaderLines(RelayHeaders(up.headers, hop))
        \o <<HeaderLine(<<"Content-Length", Number(up.len)>>), EndHeaders>>
        \o BodyItems("upstream", up.len)

\* int(self.headers.get("Content-Length", 0)) of a request of the model
RequestLen(body) ==
    IF body.kind = "empty" THEN 0 ELSE IF body.kind = "raw" THEN 5 ELSE 70

NoWireReq == [command |-> "", body |-> EmptyBody]

NoUp == [exc |-> FALSE, status |-> 0, headers |-> <<>>, len |-> 0]

\* one answered request: the status written (0: none), how the handler
\* ended, the bytes of the request's body that were still unread when the
\* response was written, and whether the request was parsed from its own
\* request line
LogEntry(code, how, unread, aligned) ==
    [code |-> code, how |-> how, unread |-> unread, aligned |-> aligned]

WireIdle ==
    /\ wDaemon = "none"
    /\ wPc = "idle"
    /\ wIn = <<>>
    /\ wUnread = 0
    /\ wReq = NoWireReq
    /\ wAuthOk = TRUE
    /\ wUp = NoUp
    /\ wRead = 0
    /\ wOut = <<>>
    /\ wUpConn = "none"
    /\ wCalls = 0
    /\ wConn = 1
    /\ wLog = <<>>

\* the methods the handler class of a daemon has a do_<METHOD> for
WireMethods(daemon) ==
    CASE daemon = "inference" -> INF_METHODS
      [] daemon = "mcp" -> MCP_METHODS
      [] daemon = "git" -> GIT_METHODS

\* whether the handler has called self.rfile.read(content_length) when it
\* writes its first response: the inference proxy answers 401 from
\* get_auth_token before it looks at Content-Length
ReadsBodyFirst(daemon, authOk) == daemon # "inference" \/ authOk

\* handle_one_request and the handler up to the upstream call, for the
\* next request the VM has sent on the connection
WireReceive ==
    /\ wPc = "idle"
    /\ wIn # <<>>
    /\ wUp' = NoUp
    /\ wRead' = 0
    /\ wCalls' = 0
    /\ wUpConn' = "none"
    /\ IF wUnread > 0
       THEN \* the request line is looked for in the unread body of the
            \* request before: 400 and the connection is closed
            /\ wOut' = send_error(400)
            /\ wLog' = Append(wLog, LogEntry(400, "misparsed", 0, FALSE))
            /\ wPc' = "closed"
            /\ wUnread' = 0
            /\ UNCHANGED <<wIn, wReq>>
       ELSE
       LET req == Head(wIn)
           len == RequestLen(req.body)
           body0 == IF req.body = EmptyBody THEN NoneBody ELSE req.body
           r == IF wDaemon = "mcp" /\ ScopeApplies(req.command, body0)
                THEN enforce_repo_scope(body0) ELSE NoResult
       IN
       /\ wIn' = Tail(wIn)
       /\ wReq' = req
       /\ IF req.command \notin WireMethods(wDaemon)
          THEN /\ wOut' = send_error(501)
               /\ wLog' = Append(wLog, LogEntry(501, "unsupported", len, TRUE))
               /\ wPc' = "closed"
               /\ wUnread' = 0
          ELSE IF ~ReadsBodyFirst(wDaemon, wAuthOk)
          THEN /\ wOut' = send_error_response(401)
               /\ wLog' = Append(wLog, LogEntry(401, "error", len, TRUE))
               /\ wPc' = "idle"
               /\ wUnread' = len
          ELSE IF r.out = "raise"
          THEN /\ wOut' = <<>>
               /\ wLog' = Append(wLog, LogEntry(0, "crash", 0, TRUE))
               /\ wPc' = "closed"
               /\ wUnread' = 0
          ELSE IF ScopeBlocks(r)
          THEN /\ wOut' = send_error_response(403)
               /\ wLog' = Append(wLog, LogEntry(403, "error", 0, TRUE))
               /\ wPc' = "idle"
               /\ wUnread' = 0
          ELSE /\ wOut' = <<>>
               /\ wPc' = "upstream"
               /\ wUnread' = 0
               /\ UNCHANGED wLog
    /\ UNCHANGED <<wDaemon, wAuthOk, wConn>>

\* whether the loop of the daemon makes another attempt after one that
\* ended in up
WireRetryable(daemon, up) ==
    LET o == [exc |-> up.exc, status |-> up.status,
              streaming |-> IsStreaming(up.headers), html |-> FALSE]
    IN  CASE daemon = "inference" -> FALSE
          [] daemon = "mcp" -> McpRetryable(o)
          [] daemon = "git" -> GitRetryable(o)

\* one upstream call, which ends in up, and what the handler does with it:
\* another attempt, the 502, the whole relay of a buffered response, or
\* the status line and headers of a streaming one
WireUpstream(up) ==
    /\ wPc = "upstream"
    /\ wCalls' = wCalls + 1
    /\ IF WireRetryable(wDaemon, up)
       THEN IF wCalls < MAX_RETRIES
            THEN UNCHANGED <<wPc, wOut, wLog, wUp, wUpConn>>
            ELSE /\ wOut' = IF wDaemon = "git" THEN send_error(502)
                            ELSE send_error_response(502)
                 /\ wLog' = Append(wLog, LogEntry(502, "error", 0, TRUE))
                 /\ wPc' = IF wDaemon = "git" THEN "closed" ELSE "idle"
                 /\ UNCHANGED <<wUp, wUpConn>>
       ELSE IF up.exc
       THEN /\ wOut' = send_error_response(502)
            /\ wLog' = Append(wLog, LogEntry(502, "error", 0, TRUE))
            /\ wPc' = "idle"
            /\ UNCHANGED <<wUp, wUpConn>>
       ELSE IF IsStreaming(up.headers) /\ wDaemon # "git"
       THEN /\ wOut' = StreamHead(up)
            /\ wUp' = up
            /\ wUpConn' = "open"
            /\ wPc' = "streaming"
            /\ UNCHANGED wLog
       ELSE /\ wOut' = BufferedRelay(up, IF wDaemon = "git" THEN GIT_HOP_HEADERS
                                         ELSE HOP_HEADERS)
            /\ wUp' = up
            /\ wUpConn' = "closed"
            /\ wLog' = Append(wLog, LogEntry(up.status, "relay", 0, TRUE))
            /\ wPc' = "idle"
    /\ UNCHANGED <<wDaemon, wIn, wUnread, wReq, wAuthOk, wRead, wConn>>

\* the data items written so far
DataCount(out) == Len(SelectSeq(out, LAMBDA it : it.t = "data"))

\* upstream.read(8192) returned n bytes, 0 < n: they are written as a chunk
WireChunk(n) ==
    /\ wPc = "streaming"
    /\ n \in 1..READ_SIZE
    /\ wRead + n <= wUp.len
    /\ (n < READ_SIZE /\ wRead + n < wUp.len) => DataCount(wOut) < MaxShortReads
    /\ wOut' = wOut \o StreamChunk(wRead + 1, n)
    /\ wRead' = wRead + n
    /\ UNCHANGED <<wDaemon, wPc, wIn, wUnread, wReq, wAuthOk, wUp, wUpConn,
                   wCalls, wConn, wLog>>

\* upstream.read(8192) returned b"": the terminating chunk, conn.close()
\* and the return
WireStreamEnd ==
    /\ wPc = "streaming"
    /\ wRead = wUp.len
    /\ wOut' = wOut \o StreamEnd
    /\ wUpConn' = "closed"
    /\ wLog' = Append(wLog, LogEntry(wUp.status, "streamed", 0, TRUE))
    /\ wPc' = "idle"
    /\ UNCHANGED <<wDaemon, wIn, wUnread, wReq, wAuthOk, wUp, wRead, wCalls,
                   wConn>>

\* a mutant of WireBroken: the upstream connection is left open and the
\* request is made again
WireBroken_retries ==
    /\ wPc = "streaming"
    /\ wPc' = "upstream"
    /\ UNCHANGED <<wDaemon, wIn, wUnread, wReq, wAuthOk, wUp, wRead, wOut,
                   wUpConn, wCalls, wConn, wLog>>

\* a write raises BrokenPipeError or ConnectionResetError: the except
\* clause logs it, finally closes the upstream connection, the handler
\* returns and the connection thread ends
WireBroken ==
    /\ wPc = "streaming"
    /\ wUpConn' = "closed"
    /\ wLog' = Append(wLog, LogEntry(wUp.status, "broken", 0, TRUE))
    /\ wPc' = "closed"
    /\ UNCHANGED <<wDaemon, wIn, wUnread, wReq, wAuthOk, wUp, wRead, wOut,
                   wCalls, wConn>>

\* serve_forever accepts another connection, on which the VM sends reqs:
\* a new thread with a new handler
WireAccept(reqs) ==
    /\ wPc \in {"closed", "idle"}
    /\ wPc = "idle" => wIn = <<>>
    /\ wConn < MaxWireConns
    /\ wConn' = wConn + 1
    /\ wIn' = reqs
    /\ wPc' = "idle"
    /\ wUnread' = 0
    /\ wReq' = NoWireReq
    /\ wUp' = NoUp
    /\ wRead' = 0
    /\ wOut' = <<>>
    /\ wUpConn' = "none"
    /\ wCalls' = 0
    /\ wLog' = <<>>
    /\ UNCHANGED <<wDaemon, wAuthOk>>

(***************************************************************************)
(* Specification of the policy function: one call on a drawn input         *)
(***************************************************************************)
InitScope ==
    /\ scopeIn \in ScopeInputs
    /\ scopeOut = NoResult
    /\ mcpCfg = DefaultMcpCfg /\ McpIdle
    /\ gitCfg = DefaultGitCfg /\ GitIdle
    /\ infApiKey = "" /\ credFile = MissingFile /\ clock = 1000000 /\ InfIdle
    /\ CredIdle
    /\ CallIdle
    /\ ProcIdle
    /\ StoreIdle
    /\ WireIdle

EnforceRepoScope ==
    /\ scopeOut = NoResult
    /\ scopeOut' = enforce_repo_scope(scopeIn)
    /\ UNCHANGED <<scopeIn, mcpVars, gitVars, infVars, credVars, callVars, procVars,
                   storeVars, wireVars>>

NextScope == EnforceRepoScope

SpecScope == InitScope /\ [][NextScope]_vars

(***************************************************************************)
(* Specification of the MCP proxy: one connection thread of a daemon that  *)
(* main() has started                                                      *)
(***************************************************************************)
InitMcp ==
    /\ mcpCfg \in McpConfigs /\ McpIdle
    /\ scopeIn = EmptyBody /\ scopeOut = NoResult
    /\ gitCfg = DefaultGitCfg /\ GitIdle
    /\ infApiKey = "" /\ credFile = MissingFile /\ clock = 1000000 /\ InfIdle
    /\ CredIdle
    /\ CallIdle
    /\ ProcIdle
    /\ StoreIdle
    /\ WireIdle

McpRequest ==
    /\ mcpPc = "idle"
    /\ \E req \in McpRequests : McpReceive(req)
    /\ UNCHANGED <<scopeVars, gitVars, infVars, credVars, callVars, procVars,
                   storeVars, wireVars>>

McpUpstreamCall ==
    /\ mcpPc = "attempt"
    /\ \E o \in UpstreamOutcomes : McpAttempt(o)
    /\ UNCHANGED <<scopeVars, gitVars, infVars, credVars, callVars, procVars,
                   storeVars, wireVars>>

McpReturn ==
    /\ McpFinish
    /\ UNCHANGED <<scopeVars, gitVars, infVars, credVars, callVars, procVars,
                   storeVars, wireVars>>

NextMcp == McpRequest \/ McpUpstreamCall \/ McpReturn

SpecMcp == InitMcp /\ [][NextMcp]_vars

(***************************************************************************)
(* Specification of the git proxy                                          *)
(***************************************************************************)
InitGit ==
    /\ gitCfg \in GitConfigs /\ GitIdle
    /\ scopeIn = EmptyBody /\ scopeOut = NoResult
    /\ mcpCfg = DefaultMcpCfg /\ McpIdle
    /\ infApiKey = "" /\ credFile = MissingFile /\ clock = 1000000 /\ InfIdle
    /\ CredIdle
    /\ CallIdle
    /\ ProcIdle
    /\ StoreIdle
    /\ WireIdle

GitRequest ==
    /\ gitPc = "idle"
    /\ \E req \in GitRequests(gitCfg) : GitReceive(req)
    /\ UNCHANGED <<scopeVars, mcpVars, infVars, credVars, callVars, procVars,
                   storeVars, wireVars>>

GitUpstreamCall ==
    /\ gitPc = "attempt"
    /\ \E o \in UpstreamOutcomes : GitAttempt(o)
    /\ UNCHANGED <<scopeVars, mcpVars, infVars, credVars, callVars, procVars,
                   storeVars, wireVars>>

GitReturn ==
    /\ GitFinish
    /\ UNCHANGED <<scopeVars, mcpVars, infVars, credVars, callVars, procVars,
                   storeVars, wireVars>>

NextGit == GitRequest \/ GitUpstreamCall \/ GitReturn

SpecGit == InitGit /\ [][NextGit]_vars

(***************************************************************************)
(* Specification of the inference proxy                                    *)
(***************************************************************************)
InitInf ==
    /\ infApiKey \in {"", "sk-ant-api-key"}
    /\ credFile \in CredFiles
    /\ clock = 1000000
    /\ InfIdle
    /\ CredIdle
    /\ CallIdle
    /\ ProcIdle
    /\ StoreIdle
    /\ WireIdle
    /\ scopeIn = EmptyBody /\ scopeOut = NoResult
    /\ mcpCfg = DefaultMcpCfg /\ McpIdle
    /\ gitCfg = DefaultGitCfg /\ GitIdle

InfRequest ==
    /\ infPc = "idle"
    /\ \E req \in InfRequests, ro \in RefreshOutcomes, saveOk \in BOOLEAN :
          InfReceive(req, ro, saveOk)
    /\ UNCHANGED <<scopeVars, mcpVars, gitVars, credVars, callVars, procVars,
                   storeVars, wireVars>>

InfUpstreamCall ==
    /\ infPc = "attempt"
    /\ \E o \in UpstreamOutcomes : InfAttempt(o)
    /\ UNCHANGED <<scopeVars, mcpVars, gitVars, credVars, callVars, procVars,
                   storeVars, wireVars>>

InfReturn ==
    /\ InfFinish
    /\ UNCHANGED <<scopeVars, mcpVars, gitVars, credVars, callVars, procVars,
                   storeVars, wireVars>>

NextInf == InfRequest \/ InfUpstreamCall \/ InfReturn

SpecInf == InitInf /\ [][NextInf]_vars

(***************************************************************************)
(* Specification of the credential manager: NumThreads handler threads of  *)
(* one daemon, the token endpoint, the other writers of the file, the      *)
(* clock                                                                   *)
(***************************************************************************)
\* the variables of the inference proxy's handler of SpecInf, idle here
infHandlerVars ==
    <<infPc, infReq, infAuth, infHeaders, infRefreshes, infUpstream, infResp>>

\* what the token endpoint can answer: RefreshOutcomes, and a token that
\* expires within the buffer
TokenEndpointOutcomes ==
    RefreshOutcomes
        \cup {[kind |-> "ok", rotate |-> FALSE, expires_in |-> 200]}

InitCred ==
    /\ infApiKey \in {"", "sk-ant-api-key"}
    /\ credFile \in CredFiles
    /\ clock = ClockStart
    /\ InfIdle
    /\ CredIdle
    /\ CallIdle
    /\ ProcIdle
    /\ StoreIdle
    /\ WireIdle
    /\ scopeIn = EmptyBody /\ scopeOut = NoResult
    /\ mcpCfg = DefaultMcpCfg /\ McpIdle
    /\ gitCfg = DefaultGitCfg /\ GitIdle

CredOthersIdle ==
    UNCHANGED <<scopeVars, mcpVars, gitVars, infApiKey, infHandlerVars, callVars,
                procVars, storeVars, wireVars>>

CredRequest == (\E t \in Threads : CredFastPath(t)) /\ CredOthersIdle

CredAcquire == (\E t \in Threads : CredLock(t)) /\ CredOthersIdle

CredRecheck == (\E t \in Threads : CredReread(t)) /\ CredOthersIdle

CredRefreshed ==
    /\ \E t \in Threads : thrPc[t] = "post"
    /\ \E t \in Threads, ro \in TokenEndpointOutcomes : CredPostDone(t, ro)
    /\ CredOthersIdle

CredSaveBegin ==
    (\E t \in Threads, openOk \in BOOLEAN : CredSaveLock(t, openOk)) /\ CredOthersIdle

CredSaveEnd ==
    (\E t \in Threads, saveOk \in BOOLEAN : CredSaveWrite(t, saveOk)) /\ CredOthersIdle

CredReturn == (\E t \in Threads : CredFinish(t)) /\ CredOthersIdle

HostRefreshes == HostRefresh /\ CredOthersIdle

HostTouches == HostTouch /\ CredOthersIdle

ClockTick == Tick /\ CredOthersIdle

NextCred ==
    \/ CredRequest \/ CredAcquire \/ CredRecheck \/ CredRefreshed
    \/ CredSaveBegin \/ CredSaveEnd \/ CredReturn
    \/ HostRefreshes \/ HostTouches \/ ClockTick

SpecCred == InitCred /\ [][NextCred]_vars

(***************************************************************************)
(* Specification of the refresh of an expired record when nothing fails:   *)
(* the file starts with an expired OAuth record that has a refresh token,  *)
(* every exchange and every write succeeds, no other process writes        *)
(***************************************************************************)
ExpiredFile ==
    OkFile([accessToken |-> "access-0", refreshToken |-> "refresh-0",
            expiresAt |-> [t |-> "numstr", v |-> ClockStart + 100000],
            subscriptionType |-> "max"])

InitRefreshOnce ==
    /\ infApiKey = ""
    /\ credFile = ExpiredFile
    /\ clock = ClockStart
    /\ InfIdle
    /\ CredIdle
    /\ CallIdle
    /\ ProcIdle
    /\ StoreIdle
    /\ WireIdle
    /\ scopeIn = EmptyBody /\ scopeOut = NoResult
    /\ mcpCfg = DefaultMcpCfg /\ McpIdle
    /\ gitCfg = DefaultGitCfg /\ GitIdle

RefreshSucceeds ==
    /\ \E t \in Threads : thrPc[t] = "post"
    /\ \E t \in Threads, ro \in {o \in TokenEndpointOutcomes : o.kind = "ok"} :
          CredPostDone(t, ro)
    /\ CredOthersIdle

SaveBeginSucceeds == (\E t \in Threads : CredSaveLock(t, TRUE)) /\ CredOthersIdle

SaveEndSucceeds == (\E t \in Threads : CredSaveWrite(t, TRUE)) /\ CredOthersIdle

NextRefreshOnce ==
    \/ CredRequest \/ CredAcquire \/ CredRecheck \/ RefreshSucceeds
    \/ SaveBeginSucceeds \/ SaveEndSucceeds \/ CredReturn \/ ClockTick

SpecRefreshOnce == InitRefreshOnce /\ [][NextRefreshOnce]_vars

(***************************************************************************)
(* The retry loops of the MCP and git proxies side by side: one handler    *)
(* thread of each daemon                                                   *)
(***************************************************************************)
RetryMcpRequests ==
    {[command |-> c, path |-> <<"/">>,
      headers |-> WithContentLength(<<>>, b), body |-> b] :
        c \in {"GET", "POST"},
        b \in {EmptyBody,
               JsonBody("py", [top |-> "obj", method |-> "initialize",
                               params |-> NoParams])}}

RetryGitRequests ==
    {[command |-> c, path |-> <<"/","o","/","r">> \o DotGit \o <<"/","x">>,
      headers |-> WithContentLength(<<>>, b), body |-> b] :
        c \in GIT_METHODS, b \in {EmptyBody, RawBody}}

InitRetry ==
    /\ mcpCfg = DefaultMcpCfg /\ McpIdle
    /\ gitCfg = DefaultGitCfg /\ GitIdle
    /\ scopeIn = EmptyBody /\ scopeOut = NoResult
    /\ infApiKey = "" /\ credFile = MissingFile /\ clock = 1000000 /\ InfIdle
    /\ CredIdle
    /\ CallIdle
    /\ ProcIdle
    /\ StoreIdle
    /\ WireIdle

RetryMcpRequest ==
    /\ mcpPc = "idle"
    /\ \E req \in RetryMcpRequests : McpReceive(req)
    /\ UNCHANGED <<scopeVars, gitVars, infVars, credVars, callVars, procVars,
                   storeVars, wireVars>>

RetryGitRequest ==
    /\ gitPc = "idle"
    /\ \E req \in RetryGitRequests : GitReceive(req)
    /\ UNCHANGED <<scopeVars, mcpVars, infVars, credVars, callVars, procVars,
                   storeVars, wireVars>>

NextRetry ==
    \/ RetryMcpRequest \/ McpUpstreamCall \/ McpReturn
    \/ RetryGitRequest \/ GitUpstreamCall \/ GitReturn

SpecRetry == InitRetry /\ [][NextRetry]_vars

(***************************************************************************)
(* Specification of the direct calls: one call of _is_token_expiring or of *)
(* _refresh_oauth_token on drawn arguments                                 *)
(***************************************************************************)
\* the values of expiresAt around the times of the calls: zero, the past,
\* within the buffer, at its end, just outside it, and far ahead
ExpiresAtValues ==
    {0, ClockStart - 100 * 1000, ClockStart + 200 * 1000,
     ClockStart + EXPIRY_BUFFER_SECS * 1000, ClockStart + EXPIRY_BUFFER_SECS * 1000 + 1,
     ClockStart + 400 * 1000, ClockStart + DEFAULT_EXPIRES_IN * 1000}

\* expiresAt of the records: absent, a number, a numeric string, another
\* string
ExpiresAtInputs ==
    {[t |-> "absent", v |-> 0], [t |-> "badstr", v |-> 0]}
        \cup {[t |-> k, v |-> x] : k \in {"num", "numstr"}, x \in ExpiresAtValues}

\* the readings of time.time() (ms) when a call is entered
CallTimes == {ClockStart, ClockStart + 100 * 1000}

\* how long (ms) a part of a call takes
Elapsed == {0, 1, 2500}

IsTokenExpiringCalls ==
    {[oauth |-> [NoOauth EXCEPT !.accessToken = "access-0", !.expiresAt = e],
      now |-> n] : e \in ExpiresAtInputs, n \in CallTimes}

RefreshCalls ==
    {[refresh_token |-> r, ro |-> o, before |-> n] :
        r \in {"refresh-0", "refresh-1"}, o \in TokenEndpointOutcomes,
        n \in CallTimes}

InitCalls ==
    /\ \/ callFn = "_is_token_expiring" /\ callArgs \in IsTokenExpiringCalls
       \/ callFn = "_refresh_oauth_token" /\ callArgs \in RefreshCalls
    /\ callRet = NoCall
    /\ infApiKey = "" /\ credFile = MissingFile /\ clock = ClockStart
    /\ InfIdle
    /\ CredIdle
    /\ ProcIdle
    /\ StoreIdle
    /\ WireIdle
    /\ scopeIn = EmptyBody /\ scopeOut = NoResult
    /\ mcpCfg = DefaultMcpCfg /\ McpIdle
    /\ gitCfg = DefaultGitCfg /\ GitIdle

CallsOthersIdle ==
    UNCHANGED <<scopeVars, mcpVars, gitVars, infVars, credVars, procVars,
                storeVars, wireVars>>

CallIsTokenExpiring == Call_is_token_expiring /\ CallsOthersIdle

CallRefreshOauthToken ==
    /\ callFn = "_refresh_oauth_token"
    /\ \E d1, d2 \in Elapsed : Call_refresh_oauth_token(d1, d2)
    /\ CallsOthersIdle

NextCalls == CallIsTokenExpiring \/ CallRefreshOauthToken

SpecCalls == InitCalls /\ [][NextCalls]_vars

(***************************************************************************)
(* Specification of the life of a daemon process: one of the three         *)
(* daemons is started with a drawn configuration, serves connections and   *)
(* is sent termination signals                                             *)
(***************************************************************************)
Daemons == {"inference", "mcp", "git"}

InitProc ==
    /\ procDaemon \in Daemons
    /\ IF procDaemon = "inference"
       THEN /\ procEnv = NoEnv
            /\ infApiKey \in {"", "sk-ant-api-key"}
            /\ credFile \in CredFiles
       ELSE /\ procEnv \in [token : BOOLEAN, owner : BOOLEAN, repo : BOOLEAN]
            /\ infApiKey = ""
            /\ credFile = MissingFile
    /\ clock = ClockStart
    /\ mainPc = "start"
    /\ procStdout = <<>>
    /\ procStderr = <<>>
    /\ exitCode = -1
    /\ shutdown_request = FALSE
    /\ is_shut_down = FALSE
    /\ listening = FALSE
    /\ signals = 0
    /\ connPc = [c \in Conns |-> "none"]
    /\ InfIdle
    /\ CredIdle
    /\ CallIdle
    /\ StoreIdle
    /\ WireIdle
    /\ scopeIn = EmptyBody /\ scopeOut = NoResult
    /\ mcpCfg = DefaultMcpCfg /\ McpIdle
    /\ gitCfg = DefaultGitCfg /\ GitIdle

ProcOthersIdle ==
    UNCHANGED <<scopeVars, mcpVars, gitVars, credVars, callVars, infApiKey, clock,
                infPc, infReq, infHeaders, infRefreshes, infUpstream, infResp,
                storeVars, wireVars>>

ProcStart ==
    /\ mainPc = "start"
    /\ \E ro \in RefreshOutcomes, saveOk \in BOOLEAN : ProcValidate(ro, saveOk)
    /\ ProcOthersIdle

ProcBind == ProcListen /\ ProcOthersIdle

ProcServeForever == ProcServe /\ ProcOthersIdle

ProcAccepts == (\E c \in Conns : ProcAccept(c)) /\ ProcOthersIdle

ConnFinishes == (\E c \in Conns : ConnFinish(c)) /\ ProcOthersIdle

ProcSignalled == ProcSignal /\ ProcOthersIdle

ProcContinues == ProcContinue /\ ProcOthersIdle

NextProc ==
    \/ ProcStart \/ ProcBind \/ ProcServeForever \/ ProcAccepts
    \/ ConnFinishes \/ ProcSignalled \/ ProcContinues

SpecProc == InitProc /\ [][NextProc]_vars

\* every thread of the process that can take a step eventually takes one
SpecProcFair ==
    /\ SpecProc
    /\ WF_vars(ProcStart) /\ WF_vars(ProcBind) /\ WF_vars(ProcServeForever)
    /\ WF_vars(ProcContinues) /\ WF_vars(ConnFinishes)

(***************************************************************************)
(* Specification of the credential file: NumWriters calls of               *)
(* _save_credentials and a reader with no lock                             *)
(***************************************************************************)
InitStore ==
    /\ pathIno \in {0, 1}
    /\ inodes = <<Doc(0, "kept")>>
    /\ pathLog = <<FileAt(pathIno)>>
    /\ tmpIno = 0
    /\ lockHolder = 0
    /\ savePc = [w \in Writers |-> "idle"]
    /\ saveFd = [w \in Writers |-> 0]
    /\ disk_creds = [w \in Writers |-> NoFile]
    /\ saveFailed = [w \in Writers |-> FALSE]
    /\ readPc = "idle"
    /\ readFd = 0
    /\ readFrom = 0
    /\ readLog = <<>>
    /\ scopeIn = EmptyBody /\ scopeOut = NoResult
    /\ mcpCfg = DefaultMcpCfg /\ McpIdle
    /\ gitCfg = DefaultGitCfg /\ GitIdle
    /\ infApiKey = "" /\ credFile = MissingFile /\ clock = ClockStart /\ InfIdle
    /\ CredIdle
    /\ CallIdle
    /\ ProcIdle
    /\ WireIdle

StoreOthersIdle ==
    UNCHANGED <<scopeVars, mcpVars, gitVars, infVars, credVars, callVars,
                procVars, wireVars>>

StoreOpenLock ==
    (\E w \in Writers, ok \in BOOLEAN : SaveOpenLock(w, ok)) /\ StoreOthersIdle

StoreFlock == (\E w \in Writers : SaveFlock(w)) /\ StoreOthersIdle

StoreMerge == (\E w \in Writers : SaveMerge(w)) /\ StoreOthersIdle

StoreOpenTmp ==
    (\E w \in Writers, ok \in BOOLEAN : SaveOpenTmp(w, ok)) /\ StoreOthersIdle

StoreDump == (\E w \in Writers : SaveDump(w)) /\ StoreOthersIdle

StoreClose ==
    (\E w \in Writers, ok \in BOOLEAN : SaveClose(w, ok)) /\ StoreOthersIdle

StoreReplace == (\E w \in Writers : SaveReplace(w)) /\ StoreOthersIdle

StoreUnlock == (\E w \in Writers : SaveUnlock(w)) /\ StoreOthersIdle

StoreExcept == (\E w \in Writers : SaveExcept(w)) /\ StoreOthersIdle

StoreReadOpen == ReadOpen /\ StoreOthersIdle

StoreReadLoad == ReadLoad /\ StoreOthersIdle

NextStore ==
    \/ StoreOpenLock \/ StoreFlock \/ StoreMerge \/ StoreOpenTmp \/ StoreDump
    \/ StoreClose \/ StoreReplace \/ StoreUnlock \/ StoreExcept
    \/ StoreReadOpen \/ StoreReadLoad

SpecStore == InitStore /\ [][NextStore]_vars

(***************************************************************************)
(* Specification of one daemon's VM connections on the wire                *)
(***************************************************************************)
\* the requests of the model: a method the handler has or has not, and a
\* body (for the MCP proxy: one that the policy rejects, too)
WireRequests(daemon) ==
    {[command |-> c, body |-> b] :
        c \in {"GET", "POST", "TRACE"},
        b \in {EmptyBody, RawBody}
                \cup (IF daemon = "mcp"
                      THEN {ToolsCall("py", ToolName("get_teams"), ObjArgs(EmptyMap)),
                            JsonBody("py", [top |-> "array", method |-> "absent",
                                            params |-> NoParams])}
                      ELSE {})}

\* what the VM sends on one connection
WireRequestSeqs(daemon) ==
    {<<a>> : a \in WireRequests(daemon)}
        \cup {<<a, [command |-> "GET", body |-> EmptyBody]>> :
                a \in WireRequests(daemon)}

\* the lengths of the upstream bodies of the model
UpBodyLens == {0, 5, READ_SIZE, READ_SIZE + 1}

\* the header fields of an upstream response with a body of n bytes:
\* delimited by Content-Length, by the end of the connection, or chunked
UpHeaderLists(n) ==
    { << <<"Content-Type", Word("application/json")>> >>,
      << <<"Content-Type", Word("application/json")>>,
         <<"Content-Length", Number(n)>> >>,
      << <<"Transfer-Encoding", Word("chunked")>>,
         <<"Content-Type", Word("text/event-stream")>> >>,
      << <<"Content-Type", Word("text/event-stream")>>,
         <<"transfer-encoding", Word("chunked")>>,
         <<"Connection", Word("keep-alive")>>,
         <<"Keep-Alive", Word("timeout=5")>> >> }

\* what an upstream call can end in
WireUps ==
    {[exc |-> TRUE, status |-> 0, headers |-> <<>>, len |-> 0]}
        \cup UNION {{[exc |-> FALSE, status |-> st, headers |-> h, len |-> n] :
                        st \in {200, 503}, h \in UpHeaderLists(n)} :
                     n \in UpBodyLens}

\* the sizes upstream.read(8192) returns
ReadSizes == {1, 4, READ_SIZE}

InitWire ==
    /\ wDaemon \in Daemons
    /\ wAuthOk \in (IF wDaemon = "inference" THEN BOOLEAN ELSE {TRUE})
    /\ wIn \in WireRequestSeqs(wDaemon)
    /\ wPc = "idle"
    /\ wUnread = 0
    /\ wReq = NoWireReq
    /\ wUp = NoUp
    /\ wRead = 0
    /\ wOut = <<>>
    /\ wUpConn = "none"
    /\ wCalls = 0
    /\ wConn = 1
    /\ wLog = <<>>
    /\ scopeIn = EmptyBody /\ scopeOut = NoResult
    /\ mcpCfg = DefaultMcpCfg /\ McpIdle
    /\ gitCfg = DefaultGitCfg /\ GitIdle
    /\ infApiKey = "" /\ credFile = MissingFile /\ clock = ClockStart /\ InfIdle
    /\ CredIdle
    /\ CallIdle
    /\ ProcIdle
    /\ StoreIdle

WireOthersIdle ==
    UNCHANGED <<scopeVars, mcpVars, gitVars, infVars, credVars, callVars,
                procVars, storeVars>>

WireRequest == WireReceive /\ WireOthersIdle

WireUpstreamCall ==
    /\ wPc = "upstream"
    /\ \E up \in WireUps : WireUpstream(up)
    /\ WireOthersIdle

WireRelayChunk ==
    /\ wPc = "streaming"
    /\ \E n \in ReadSizes : WireChunk(n)
    /\ WireOthersIdle

WireRelayEnd == WireStreamEnd /\ WireOthersIdle

WireRelayBroken == WireBroken /\ WireOthersIdle

WireNextConn ==
    /\ wConn < MaxWireConns
    /\ \E reqs \in WireRequestSeqs(wDaemon) : WireAccept(reqs)
    /\ WireOthersIdle

NextWire ==
    \/ WireRequest \/ WireUpstreamCall \/ WireRelayChunk \/ WireRelayEnd
    \/ WireRelayBroken \/ WireNextConn

SpecWire == InitWire /\ [][NextWire]_vars

(***************************************************************************)
(* Vocabulary of the claims about the policy                               *)
(***************************************************************************)
\* a JSON-RPC tools/call that names a tool
IsToolsCall(b) ==
    /\ b.kind = "json"
    /\ b.val.top = "obj"
    /\ b.val.method = "tools/call"
    /\ b.val.params.t = "obj"
    /\ b.val.params.name.t = "str"

CallTool(b) == b.val.params.name.s

CallArgs(b) == b.val.params.args

ToolCategory(n) ==
    CASE n \in UNSCOPED_TOOLS -> "Unscoped"
      [] n \in SEARCH_TOOLS -> "SearchScoped"
      [] n \in BLOCKED_SEARCH_TOOLS -> "BlockedSearch"
      [] n \in ORG_TOOLS -> "OrgScoped"
      [] n \in REPO_FIELD_TOOLS -> "RepoFieldScoped"
      [] OTHER -> "Unknown"

ScopeCalled == scopeOut.out # "none"

\* the whitespace-delimited terms of a query
TermsOf(q) ==
    {SubSeq(q, ij[1], ij[2]) : ij \in
        {x \in (1..Len(q)) \X (1..Len(q)) :
            /\ x[1] <= x[2]
            /\ \A k \in x[1]..x[2] : ~IsSpace(q[k])
            /\ (x[1] = 1 \/ IsSpace(q[x[1] - 1]))
            /\ (x[2] = Len(q) \/ IsSpace(q[x[2] + 1]))}}

\* the values of the terms `name:value` and `-name:value` of a query
QualifierValues(q, name) ==
    {SubSeq(t, Len(name) + 2, Len(t)) :
        t \in {u \in TermsOf(q) :
                  startswith(u, name \o <<":">>) /\ Len(u) > Len(name) + 1}}
    \cup
    {SubSeq(t, Len(name) + 3, Len(t)) :
        t \in {u \in TermsOf(q) :
                  startswith(u, <<"-">> \o name \o <<":">>) /\ Len(u) > Len(name) + 2}}

\* a SearchScoped tools/call with a text query
IsSearchCall(b) ==
    /\ IsToolsCall(b)
    /\ ToolCategory(CallTool(b)) = "SearchScoped"
    /\ CallArgs(b).t = "obj"
    /\ "query" \in DOMAIN CallArgs(b).f
    /\ CallArgs(b).f["query"].t = "str"

InQuery == CallArgs(scopeIn).f["query"].s

OutQuery == CallArgs(scopeOut.body).f["query"].s

\* a RepoFieldScoped tools/call
IsRepoFieldCall(b) ==
    /\ IsToolsCall(b)
    /\ ToolCategory(CallTool(b)) = "RepoFieldScoped"

HasDifferingField(b) ==
    /\ CallArgs(b).t = "obj"
    /\ \/ "owner" \in DOMAIN CallArgs(b).f /\ CallArgs(b).f["owner"] # StrVal(OWNER)
       \/ "repo" \in DOMAIN CallArgs(b).f /\ CallArgs(b).f["repo"] # StrVal(REPO)

(***************************************************************************)
(* Claims about enforce_repo_scope (specification SpecScope)               *)
(***************************************************************************)

\* C2: every tools/call that names an Unknown, OrgScoped or BlockedSearch
\* tool is rejected with a ScopeViolation and no body, whatever the type or
\* content of params.arguments.
C2_DefaultDeny ==
    (/\ ScopeCalled
     /\ IsToolsCall(scopeIn)
     /\ ToolCategory(CallTool(scopeIn)) \in {"Unknown", "OrgScoped", "BlockedSearch"})
    => (scopeOut.out = "reject" /\ scopeOut.body = NoneBody)

\* C3: a RepoFieldScoped tools/call whose arguments contain an owner
\* different from the configured owner, or a repo different from the
\* configured repo, is rejected with a ScopeViolation and no body.
C3_DifferingFieldRejected ==
    (/\ ScopeCalled
     /\ IsRepoFieldCall(scopeIn)
     /\ HasDifferingField(scopeIn))
    => (scopeOut.out = "reject" /\ scopeOut.body = NoneBody
        /\ scopeOut.msg.kind = "field")

\* the owner is the configured one, only the repo differs, and the call
\* was rejected
C3_Witness ==
    /\ ScopeCalled
    /\ IsRepoFieldCall(scopeIn)
    /\ CallArgs(scopeIn).t = "obj"
    /\ DOMAIN CallArgs(scopeIn).f = {"owner", "repo", "branch"}
    /\ CallArgs(scopeIn).f["owner"] = StrVal(OWNER)
    /\ CallArgs(scopeIn).f["repo"] = StrVal(<<"x">>)
    /\ scopeOut.out = "reject"

\* C4: a SearchScoped tools/call is rejected with a ScopeViolation if its
\* query has a repo: qualifier whose value is not {owner}/{repo}, or any
\* org: or user: qualifier.
C4_SearchQualifierRejected ==
    (/\ ScopeCalled
     /\ IsSearchCall(scopeIn)
     /\ \/ \E v \in QualifierValues(InQuery, Q_repo) : v # OwnerRepo
        \/ QualifierValues(InQuery, Q_org) # {}
        \/ QualifierValues(InQuery, Q_user) # {})
    => (scopeOut.out = "reject" /\ scopeOut.body = NoneBody)

\* a query whose second term is a user: qualifier, and that has no repo:
\* and no org: qualifier, was rejected
C4_Witness ==
    /\ ScopeCalled
    /\ IsSearchCall(scopeIn)
    /\ QualifierValues(InQuery, Q_repo) = {}
    /\ QualifierValues(InQuery, Q_org) = {}
    /\ QualifierValues(InQuery, Q_user) = {<<"x">>}
    /\ InQuery[1] = "x"
    /\ scopeOut.out = "reject"
    /\ scopeOut.msg.kind = "widening_qualifier"

\* C5: for an accepted SearchScoped call, a query without a
\* repo: qualifier comes back as the scope, one space and the original
\* query; a query that has the qualifier repo:{owner}/{repo} comes back
\* unchanged.
C5_AsStated ==
    (/\ ScopeCalled
     /\ IsSearchCall(scopeIn)
     /\ scopeOut.out = "ok")
    => /\ QualifierValues(InQuery, Q_repo) = {}
            => OutQuery = ScopeString \o <<" ">> \o InQuery
       /\ ScopeString \in TermsOf(InQuery) => OutQuery = InQuery

\* C6: the arguments of the body returned for an accepted RepoFieldScoped
\* call have the configured owner and repo, and every other argument of
\* the input is kept.
C6_AcceptedIsScoped ==
    (/\ ScopeCalled
     /\ IsRepoFieldCall(scopeIn)
     /\ scopeOut.out = "ok")
    => /\ IsRepoFieldCall(scopeOut.body)
       /\ CallArgs(scopeOut.body).t = "obj"
       /\ {"owner", "repo"} \subseteq DOMAIN CallArgs(scopeOut.body).f
       /\ CallArgs(scopeOut.body).f["owner"] = StrVal(OWNER)
       /\ CallArgs(scopeOut.body).f["repo"] = StrVal(REPO)
       /\ \A k \in DOMAIN CallArgs(scopeIn).f :
             /\ k \in DOMAIN CallArgs(scopeOut.body).f
             /\ k \notin {"owner", "repo"}
                  => CallArgs(scopeOut.body).f[k] = CallArgs(scopeIn).f[k]

\* C26: for every RepoFieldScoped tools/call whose arguments already have
\* the configured owner and the configured repo, enforce_repo_scope returns
\* exactly the input bytes: the body is not serialized again.
C26_MatchingCallUntouched ==
    (/\ ScopeCalled
     /\ IsRepoFieldCall(scopeIn)
     /\ CallArgs(scopeIn).t = "obj"
     /\ {"owner", "repo"} \subseteq DOMAIN CallArgs(scopeIn).f
     /\ CallArgs(scopeIn).f["owner"] = StrVal(OWNER)
     /\ CallArgs(scopeIn).f["repo"] = StrVal(REPO))
    => scopeOut = Accept(scopeIn)

\* a call with the configured owner and repo, and another argument, whose
\* bytes are not in the spelling of json.dumps, came back as it was
C26_Witness ==
    /\ IsRepoFieldCall(scopeIn)
    /\ scopeIn.fmt = "compact"
    /\ CallArgs(scopeIn).t = "obj"
    /\ DOMAIN CallArgs(scopeIn).f = {"owner", "repo", "branch"}
    /\ CallArgs(scopeIn).f["owner"] = StrVal(OWNER)
    /\ CallArgs(scopeIn).f["repo"] = StrVal(REPO)
    /\ scopeOut = Accept(scopeIn)

\* C27: for every body that is not well-formed JSON, and for every
\* well-formed JSON body whose JSON-RPC method is not tools/call,
\* enforce_repo_scope returns the input bytes unchanged and no error.
C27_OtherBodiesUntouched ==
    (/\ ScopeCalled
     /\ \/ scopeIn.kind = "raw"
        \/ scopeIn.kind = "json" /\ scopeIn.val.method # "tools/call")
    => scopeOut = Accept(scopeIn)

\* C37: every SearchScoped tools/call that enforce_repo_scope accepts
\* comes back with a text query one of whose whitespace-delimited terms is
\* exactly repo:{owner}/{repo} (not negated, not part of a longer word).
C37_AcceptedQueryRestricted ==
    (/\ ScopeCalled
     /\ IsToolsCall(scopeIn)
     /\ ToolCategory(CallTool(scopeIn)) = "SearchScoped"
     /\ CallArgs(scopeIn).t = "obj"
     /\ scopeOut.out = "ok")
    => /\ IsSearchCall(scopeOut.body)
       /\ ScopeString \in TermsOf(OutQuery)

\* C38: enforce_repo_scope is total: whatever the body, it returns either
\* a body and no error, or no body and a ScopeViolation message; it never
\* raises.
C38_Total ==
    ScopeCalled
    => \/ scopeOut.out = "ok" /\ scopeOut.body # NoneBody /\ scopeOut.msg = NoMsg
       \/ scopeOut.out = "reject" /\ scopeOut.body = NoneBody
            /\ scopeOut.msg # NoMsg

(***************************************************************************)
(* Claims about the MCP proxy (specification SpecMcp)                      *)
(***************************************************************************)
\* a body that is a JSON-RPC tools/call
IsJsonRpcToolsCall(b) ==
    /\ b.kind = "json"
    /\ b.val.top = "obj"
    /\ b.val.method = "tools/call"

\* C1: whatever the HTTP method (GET, POST, PUT, DELETE), a request that is
\* forwarded upstream with a JSON-RPC tools/call body has been passed to
\* enforce_repo_scope and accepted by it.
C1_NoBypass ==
    \A i \in 1..Len(mcpUpstream) :
        IsJsonRpcToolsCall(mcpUpstream[i].body)
            => (mcpScope.out = "ok" /\ mcpScope.body = mcpUpstream[i].body)

\* the fields of a header dict whose names are one of the four controls
McpControlNames ==
    {"x-mcp-toolsets", "x-mcp-tools", "x-mcp-readonly", "x-mcp-lockdown"}

IsControlField(field) == lower(field[1]) \in McpControlNames

\* the controls the daemon's configuration asks for
ExpectedControls(cfg) ==
    (IF cfg.toolsets # "" THEN << <<"x-mcp-toolsets", Text(cfg.toolsets)>> >> ELSE <<>>)
    \o (IF cfg.tools # "" THEN << <<"x-mcp-tools", Text(cfg.tools)>> >> ELSE <<>>)
    \o (IF cfg.readonly THEN << <<"x-mcp-readonly", Text("true")>> >> ELSE <<>>)
    \o (IF cfg.lockdown THEN << <<"x-mcp-lockdown", Text("true")>> >> ELSE <<>>)

LowerNames(d) == [i \in 1..Len(d) |-> <<lower(d[i][1]), d[i][2]>>]

\* C7: the X-MCP-Toolsets, X-MCP-Tools, X-MCP-Readonly and X-MCP-Lockdown
\* fields of every forwarded request are exactly the ones the daemon's
\* configuration gives, whatever X-MCP-* headers the VM sent (in any
\* letter case); a control the daemon does not set is absent upstream.
C7_HeaderLockdown ==
    \A i \in 1..Len(mcpUpstream) :
        LowerNames(SelectSeq(mcpUpstream[i].headers, IsControlField))
            = ExpectedControls(mcpCfg)

\* a request in which the VM set X-MCP-Tools and X-MCP-Toolsets was
\* forwarded by a daemon that sets neither
C7_Witness ==
    /\ mcpUpstream # <<>>
    /\ mcpCfg.tools = "" /\ mcpCfg.toolsets = ""
    /\ \E i \in 1..Len(mcpReq.headers) : lower(mcpReq.headers[i][1]) = "x-mcp-tools"
    /\ \E i \in 1..Len(mcpReq.headers) : mcpReq.headers[i][1] = "x-mcp-toolsets"

\* C10: when enforce_repo_scope rejects a request the VM gets HTTP 403 with
\* the policy message, and no upstream call is made for that request.
C10_RejectedBeforeUpstream ==
    mcpScope.out = "reject"
        => /\ mcpPc = "done"
           /\ mcpResp = ErrorResp(403, mcpScope.msg, "", 0)
           /\ mcpUpstream = <<>>

\* a tools/call on another repository was answered with 403
C10_Witness ==
    /\ mcpScope.out = "reject"
    /\ mcpScope.msg.kind = "field"
    /\ mcpResp.status = 403
    /\ mcpReq.command = "POST"

(***************************************************************************)
(* Claims about the inference proxy (specification SpecInf)                *)
(***************************************************************************)
FieldsNamed(d, names) ==
    SelectSeq(LowerNames(d), LAMBDA field : field[1] \in names)

\* C8: every upstream request of the inference proxy has Host set to the
\* fixed upstream host, and exactly one credential field: Authorization:
\* Bearer {token} for an OAuth token, x-api-key: {token} for an API key;
\* no Authorization, X-Api-Key or Host value of the VM is in it.
C8_CredentialHeaders ==
    \A i \in 1..Len(infUpstream) :
        LET d == infUpstream[i].headers IN
        /\ FieldsNamed(d, {"host"}) = << <<"host", Text(API_HOST)>> >>
        /\ FieldsNamed(d, {"authorization", "x-api-key"}) =
              IF infAuth.is_oauth
              THEN << <<"authorization", Bearer(infAuth.token)>> >>
              ELSE << <<"x-api-key", Text(infAuth.token)>> >>

\* a request in which the VM set X-Api-Key and Host was forwarded with an
\* OAuth token
C8_Witness ==
    /\ infUpstream # <<>>
    /\ infAuth.is_oauth
    /\ \E i \in 1..Len(infReq.headers) : lower(infReq.headers[i][1]) = "x-api-key"
    /\ \E i \in 1..Len(infReq.headers) : lower(infReq.headers[i][1]) = "host"

\* C25: whenever credential resolution fails (missing or corrupt file,
\* missing access token, missing refresh token, failed refresh) the
\* inference proxy answers the VM with 401 and the fixed message
\* "Authentication failed. Check proxy logs.", the same for every cause,
\* and nothing is forwarded upstream.
C25_GenericAuthError ==
    infAuth.out \in {"err", "raise"}
        => /\ infResp = ErrorResp(401, AuthFailed, "", 0)
           /\ infUpstream = <<>>

(***************************************************************************)
(* Claims about the git proxy (specification SpecGit)                      *)
(***************************************************************************)
\* the path up to its query string
PathOnly(path) ==
    IF \E i \in 1..Len(path) : path[i] = "?"
    THEN SubSeq(path, 1,
                (CHOOSE i \in 1..Len(path) :
                    path[i] = "?" /\ \A j \in 1..(i - 1) : path[j] # "?") - 1)
    ELSE path

RepoPath(cfg) == <<"/">> \o cfg.owner \o <<"/">> \o cfg.repo

AuthFields(d) == FieldsNamed(d, {"authorization"})

\* C9 as stated: the Basic-auth token is attached iff the request path
\* begins with /{owner}/{repo}.git/ or /{owner}/{repo}/; otherwise there is
\* no Authorization field; the VM's Authorization is never forwarded.
C9_AsStated ==
    \A i \in 1..Len(gitUpstream) :
        LET e == gitUpstream[i]
            scoped == \/ startswith(e.path, RepoPath(gitCfg) \o DotGit \o <<"/">>)
                      \/ startswith(e.path, RepoPath(gitCfg) \o <<"/">>)
        IN  AuthFields(e.headers) =
                IF scoped THEN << <<"authorization", _BASIC_AUTH>> >> ELSE <<>>

\* C9 as amended: when owner and repo are both configured, the token is
\* attached iff the path without its query string is /{owner}/{repo} or
\* /{owner}/{repo}.git, or begins with one of the two followed by "/";
\* when one of them is not configured the token is never attached; in
\* every other case there is no Authorization field, and the VM's
\* Authorization is never forwarded.
C9_TokenOnlyForScopedRepo ==
    \A i \in 1..Len(gitUpstream) :
        LET e == gitUpstream[i]
            p == PathOnly(e.path)
            scoped == /\ gitCfg.owner # <<>>
                      /\ gitCfg.repo # <<>>
                      /\ \/ p = RepoPath(gitCfg)
                         \/ p = RepoPath(gitCfg) \o DotGit
                         \/ startswith(p, RepoPath(gitCfg) \o <<"/">>)
                         \/ startswith(p, RepoPath(gitCfg) \o DotGit \o <<"/">>)
        IN  AuthFields(e.headers) =
                IF scoped THEN << <<"authorization", _BASIC_AUTH>> >> ELSE <<>>

\* a request for /{owner}/{repo}.git with a query string, in which the VM
\* set an Authorization of its own, was forwarded with the token
C9_Witness ==
    /\ gitUpstream # <<>>
    /\ gitReq.path = RepoPath(gitCfg) \o DotGit \o <<"?", "x">>
    /\ \E i \in 1..Len(gitReq.headers) : lower(gitReq.headers[i][1]) = "authorization"
    /\ AuthFields(gitUpstream[1].headers) = << <<"authorization", _BASIC_AUTH>> >>

(***************************************************************************)
(* Claims about the retry loops (specification SpecRetry)                  *)
(***************************************************************************)
\* the attempt ended in a response with a status below 500
EndedBelow500(last) == last # NoOutcome /\ ~last.exc /\ last.status < 500

\* the attempt ended in a transport failure or a status >= 500
EndedInFailure(last) == last.exc \/ last.status >= 500

BoundedBackoff(pc, upstream, sleeps, last, resp) ==
    /\ Len(upstream) <= 4
    /\ sleeps = SubSeq(<<1, 2, 4>>, 1, Len(sleeps))
    /\ Len(upstream) > 0 => Len(sleeps) = Len(upstream) - 1
    /\ (Len(upstream) = 4 /\ (last.exc \/ (last.status >= 500 /\ ~last.streaming)))
          => (pc = "done" /\ resp.status = 502)
    /\ resp.status = 502
          => /\ pc = "done"
             /\ Len(upstream) = 4
             /\ resp.kind = "error"
             /\ resp.attempts = 4
             /\ resp.err = LastErrorOf(last)

StreamingRelayed(pc, last, resp) ==
    (~last.exc /\ last.streaming)
        => /\ ~last.inspected
           /\ pc = "done"
           /\ resp.kind = "relay"
           /\ resp.status = last.status

\* C17: in the MCP and git proxies a response that carries Transfer-Encoding
\* is never read in full for 5xx inspection and never retried, whatever its
\* status: it is relayed on the attempt that received it.
C17_StreamingNotRetried ==
    /\ StreamingRelayed(mcpPc, mcpLast, mcpResp)
    /\ StreamingRelayed(gitPc, gitLast, gitResp)

(***************************************************************************)
(* Claims about the upstream call of the inference proxy (SpecInf)         *)
(***************************************************************************)
\* C16: the inference proxy retries an upstream call that ends in a
\* transport error or a status >= 500, up to 4 attempts in total, before
\* any failure is reported to the VM: no failure is reported after a single
\* attempt.
C16_InferenceRetries ==
    (\/ infResp.status = 502
     \/ (infResp.kind = "relay" /\ infResp.status >= 500 /\ ~infResp.streaming))
        => Len(infUpstream) > 1

(***************************************************************************)
(* Claims about the credential manager (specification SpecCred)            *)
(***************************************************************************)
\* the POSTs to the token endpoint whose response is still awaited
InFlight == {i \in 1..Len(tokenCalls) : tokenCalls[i].inflight}

\* C11: at no time are two refresh exchanges in flight in threads of the
\* same daemon, and a POST to the token endpoint is in flight only in a
\* thread that holds the in-process refresh mutex.
C11_OneRefreshAtATime ==
    /\ Cardinality(InFlight) <= 1
    /\ \A i \in InFlight :
          /\ _refresh_lock = tokenCalls[i].by
          /\ thrPc[tokenCalls[i].by] = "post"

\* one thread awaits the token endpoint while another waits for the mutex
C11_Witness ==
    \E t, u \in Threads :
        /\ t # u
        /\ thrPc[t] = "post" /\ InFlight # {}
        /\ thrPc[u] = "wait"

(***************************************************************************)
(* Claims about a refresh when nothing fails (SpecRefreshOnce)             *)
(***************************************************************************)
\* the POST j was made when the record that the POST i had returned was
\* within the 300 s buffer of its expiry
AfterExpiryOf(i, j) ==
    tokenCalls[j].at + 300 * 1000 > tokenCalls[i].expiresAt

\* C12: from an expired record with a valid refresh token, with every
\* exchange and write succeeding, requests served concurrently or one after
\* another cause one refresh call only, and every request is resolved with
\* the new access token without another call, until the new token enters
\* the 300 s expiry buffer: a further call is made only then.
C12_ExactlyOneRefresh ==
    /\ \A i, j \in 1..Len(tokenCalls) : i < j => AfterExpiryOf(i, j)
    /\ \A t \in Threads :
          thrOut[t].out # "none"
              => /\ thrOut[t] =
                      ThreadOut("ok", "access-refreshed", TRUE, thrOut[t].via)
                 /\ Len(tokenCalls) >= 1

\* two requests were served at once, one made the refresh call and the
\* other got the new token on its re-read under the mutex; one call in all
C12_Witness ==
    /\ Len(tokenCalls) = 1
    /\ \E t, u \in Threads :
          /\ thrOut[t].via = "refresh" /\ thrOut[t].out = "ok"
          /\ thrOut[u].via = "recheck" /\ thrOut[u].out = "ok"
          /\ thrOut[u].token = thrOut[t].token

(***************************************************************************)
(* Claims about races, failures and writes of the credential manager       *)
(* (specification SpecCred)                                                *)
(***************************************************************************)
\* the file holds an OAuth record with an access token
HasRecord(file) ==
    file.state = "ok" /\ file.hasOauth /\ file.oauth.accessToken # ""

\* the expiry of the record of the file is a time, within 300 s of now or
\* past
RecordExpiring(file, now) ==
    /\ file.oauth.expiresAt.t \in {"num", "numstr"}
    /\ now + 300 * 1000 > file.oauth.expiresAt.v

\* the step of thread t from pc to another position
Leaves(t, pc) == thrPc[t] = pc /\ thrPc'[t] # pc

\* C13: when another process has replaced the file with a non-expiring
\* OAuth record after a request's fast-path read found the record expiring
\* and before the request re-reads the file under the mutex, the request
\* returns the access token of that record and makes no refresh call.
C13_HostRefreshUsed ==
    [][\A t \in Threads :
          (/\ Leaves(t, "locked")
           /\ HasRecord(credFile)
           /\ credFile.oauth.expiresAt.t \in {"num", "numstr"}
           /\ ~RecordExpiring(credFile, clock))
          => /\ thrOut'[t] =
                  ThreadOut("ok", credFile.oauth.accessToken, TRUE, "recheck")
             /\ thrPc'[t] = "resolved"
             /\ tokenCalls' = tokenCalls]_vars

\* a request that went to the slow path was resolved by its re-read with the
\* token another process had written, and no POST was ever made
C13_Witness ==
    /\ tokenCalls = <<>>
    /\ \E t \in Threads :
          thrOut[t] = ThreadOut("ok", "access-host", TRUE, "recheck")

\* C18: a refresh exchange answered with a non-200 status, or with 200
\* and no access_token, fails the current request only: the file is left as
\* it is, the VM gets the auth error (401), the mutex is released, and
\* whatever failed before, a request that finds the record still expiring
\* with a refresh token makes the exchange again.
C18_RefreshFailureNotRemembered ==
    /\ [][\A t \in Threads :
            (/\ Leaves(t, "post")
             /\ tokenCalls'[InflightOf(t)].kind
                  \in {"http_error", "no_access_token", "not_object"})
            => /\ thrPc'[t] = "resolved"
               /\ thrOut'[t] = ThreadOut("err", "", FALSE, "refresh")
               /\ thrOut'[t].status = 401
               /\ credFile' = credFile
               /\ _refresh_lock' = 0]_vars
    /\ [][\A t \in Threads :
            (/\ Leaves(t, "locked")
             /\ HasRecord(credFile)
             /\ RecordExpiring(credFile, clock)
             /\ credFile.oauth.refreshToken # "")
            => /\ thrPc'[t] = "post"
               /\ tokenCalls' = Append(tokenCalls, TokenCall(t, clock))]_vars

\* C19: a successful write replaces only the claudeAiOauth section: the
\* other top-level keys that are on disk when the file lock is acquired are
\* there with the same value after the write, also when another process
\* changed them after the writer first read the file.
C19_OtherKeysPreserved ==
    [][\A t \in Threads :
          (thrPc[t] = "flocked" /\ credFile' # credFile)
          => /\ credFile'.state = "ok"
             /\ credFile'.hasOauth
             /\ credFile'.oauth = thrLocal[t].new_oauth
             /\ credFile.state = "ok" => credFile'.other = credFile.other]_vars

\* a thread has written its refreshed record, and the file has the other
\* keys as another process changed them after the thread had read the file
C19_Witness ==
    \E t \in Threads :
        /\ thrOut[t].via = "refresh" /\ thrOut[t].out = "ok"
        /\ credFile.oauth = thrLocal[t].new_oauth
        /\ thrLocal[t].other = "kept"
        /\ credFile.other = "changed"

\* C20: when the write of a refreshed record fails with an I/O error, the
\* refreshed token stays usable by later requests of the same process
\* without another refresh exchange: after a successful exchange the
\* daemon makes no further one before the token it got enters the 300 s
\* expiry buffer.
C20_RefreshedTokenStaysUsable ==
    \A i, j \in 1..Len(tokenCalls) :
        (i < j /\ tokenCalls[i].ok) => AfterExpiryOf(i, j)

\* C24: when a static API key is configured, get_auth_token returns that
\* key with kind API key on every call, whatever the state of the credential
\* file: the call ends at its first test, the file is not written, the
\* refresh mutex and the file lock are never taken by a thread of the daemon
\* and no refresh exchange is ever made.
C24_ApiKeyFirst ==
    /\ [](infApiKey # ""
            => /\ tokenCalls = <<>>
               /\ _refresh_lock = 0
               /\ credFlock \notin Threads
               /\ \A t \in Threads :
                     /\ thrPc[t] \in {"idle", "resolved"}
                     /\ thrOut[t] \in {NoThreadOut,
                                        ThreadOut("ok", infApiKey, FALSE, "api_key")})
    /\ [][\A t \in Threads :
            (infApiKey # "" /\ thrPc'[t] # thrPc[t]) => credFile' = credFile]_vars

\* a request was resolved with the API key while the credential file is
\* missing or corrupt
C24_Witness ==
    /\ infApiKey # ""
    /\ credFile.state # "ok"
    /\ \E t \in Threads : thrOut[t] = ThreadOut("ok", infApiKey, FALSE, "api_key")

(***************************************************************************)
(* Claims about the functions of claude-vm-proxy.py called directly        *)
(* (specification SpecCalls)                                               *)
(***************************************************************************)
\* C21: for every OAuth record _is_token_expiring is true if and only if
\* expiresAt is a number or a numeric string (epoch milliseconds) and
\* now + 300 s > expiresAt; it is false when expiresAt is absent or cannot
\* be parsed as a number.
C21_ExpiringIffWithinBuffer ==
    (callFn = "_is_token_expiring" /\ callRet # NoCall)
        => callRet.value =
              (/\ callArgs.oauth.expiresAt.t \in {"num", "numstr"}
               /\ callArgs.now + 300 * 1000 > callArgs.oauth.expiresAt.v)

\* the direct call of _refresh_oauth_token has returned a new record
RefreshReturned ==
    /\ callFn = "_refresh_oauth_token"
    /\ callRet # NoCall
    /\ ~callRet.result.err /\ ~callRet.result.raised

\* C22: after a successful refresh the refreshToken of the new record is the
\* one the token endpoint returned when the response has refresh_token, and
\* the refresh token sent in the exchange when the response omits it.
C22_RefreshTokenKeptOrRotated ==
    RefreshReturned
        => /\ callArgs.ro.kind = "ok"
           /\ callRet.result.oauth.refreshToken =
                 IF callArgs.ro.rotate THEN "refresh-rotated"
                 ELSE callArgs.refresh_token

\* a refresh has succeeded on a response with a new refresh_token
C22_Witness ==
    /\ RefreshReturned
    /\ callArgs.ro.rotate
    /\ callArgs.refresh_token = "refresh-1"
    /\ callRet.result.oauth.refreshToken = "refresh-rotated"

\* C23: after a successful refresh expiresAt of the new record is the time
\* read during the exchange plus expires_in * 1000 ms: it lies between the
\* time before the call + expires_in * 1000 and the time after the call +
\* expires_in * 1000.
C23_ExpiresAtWithinCall ==
    RefreshReturned
        => /\ callRet.result.oauth.expiresAt.t = "num"
           /\ callArgs.before + callArgs.ro.expires_in * 1000
                 <= callRet.result.oauth.expiresAt.v
           /\ callRet.result.oauth.expiresAt.v
                 <= callRet.after + callArgs.ro.expires_in * 1000

\* a refresh has succeeded on a response with expires_in = 200, the exchange
\* having taken time, and so has the return
C23_Witness ==
    /\ RefreshReturned
    /\ callArgs.ro.expires_in = 200
    /\ callArgs.before + 200 * 1000 < callRet.result.oauth.expiresAt.v
    /\ callRet.result.oauth.expiresAt.v < callRet.after + 200 * 1000

(***************************************************************************)
(* Claims about the life of a daemon process (specifications SpecProc and  *)
(* SpecProcFair)                                                           *)
(***************************************************************************)
\* the inference proxy was started without an API key and get_auth_token
\* gave no token from the credential file
NoCredential ==
    /\ procDaemon = "inference"
    /\ infApiKey = ""
    /\ infAuth.out \in {"err", "raise"}

\* the port line is printed only when no required configuration is missing,
\* and once main() has made its checks a process with missing configuration
\* has exited non-zero with a message on standard error and no port line
ExitsBeforePort(missing) ==
    /\ procStdout # <<>> => (mainPc # "start" /\ ~missing)
    /\ (mainPc # "start" /\ missing)
          => /\ mainPc = "exited"
             /\ exitCode > 0
             /\ procStderr # <<>>
             /\ procStdout = <<>>

C29_SignalTerminates ==
    (procDaemon \in {"inference", "mcp"} /\ signals > 0)
        ~> (mainPc = "exited" /\ ~listening)

\* C30: a request that a connection thread is handling when the termination
\* signal arrives runs to completion before the process exits: no exit
\* leaves a request cut off in the middle.
C30_InFlightCompletes ==
    \A c \in Conns : connPc[c] # "aborted"

(***************************************************************************)
(* Claims about the header fields of the upstream request                  *)
(***************************************************************************)
\* no two fields of the dict have names that are equal ignoring case
NoCaseDuplicates(d) ==
    \A i, j \in 1..Len(d) : lower(d[i][1]) = lower(d[j][1]) => i = j

\* the values of the fields of items named low (ignoring case), joined by
\* commas in the order received
RECURSIVE JoinedValues(_, _)
JoinedValues(items, low) ==
    LET rest == SelectSeq(Tail(items), LAMBDA field : lower(field[1]) = low)
    IN  IF lower(items[1][1]) # low THEN JoinedValues(Tail(items), low)
        ELSE IF rest = <<>> THEN items[1][2]
        ELSE CommaJoin(items[1][2], JoinedValues(rest, low))

\* the spelling of the first field of items named low (ignoring case)
FirstCasing(items, low) ==
    items[CHOOSE i \in 1..Len(items) :
              /\ lower(items[i][1]) = low
              /\ \A j \in 1..(i - 1) : lower(items[j][1]) # low][1]

\* every inbound field whose name is not one of `own` is in d once, under
\* its first spelling, with all its values joined by commas
InboundMerged(items, own, d) ==
    \A k \in 1..Len(items) :
        LET low == lower(items[k][1]) IN
        low \notin own
            => \E i \in 1..Len(d) :
                  /\ d[i][1] = FirstCasing(items, low)
                  /\ d[i][2] = JoinedValues(items, low)

\* every Content-Length field of d, in any letter case, is the length of
\* the body that is sent
ContentLengthOf(d, body) ==
    \A i \in 1..Len(d) :
        lower(d[i][1]) = "content-length" => d[i][2] = LenStr(body)

\* C34: in every proxy the upstream request has no two header fields whose
\* names are equal ignoring case; inbound duplicates are merged into one
\* field under the first-seen casing with the values joined by commas; and
\* a field the proxy sets itself replaces an inbound field of that name in
\* any casing, so upstream sees a single Content-Length, the length of the
\* body that is sent.
C34_CaseInsensitiveHeaders ==
    /\ \A i \in 1..Len(mcpUpstream) :
          LET d == mcpUpstream[i].headers IN
          /\ NoCaseDuplicates(d)
          /\ InboundMerged(mcpReq.headers,
                           MCP_STRIPPED \cup {"content-length"}, d)
          /\ ContentLengthOf(d, mcpUpstream[i].body)
    /\ \A i \in 1..Len(gitUpstream) :
          LET d == gitUpstream[i].headers IN
          /\ NoCaseDuplicates(d)
          /\ InboundMerged(gitReq.headers,
                           GIT_STRIPPED \cup {"content-length"}, d)
          /\ ContentLengthOf(d, gitUpstream[i].body)
    /\ \A i \in 1..Len(infUpstream) :
          LET d == infUpstream[i].headers IN
          /\ NoCaseDuplicates(d)
          /\ InboundMerged(infReq.headers,
                           INF_STRIPPED \cup {"anthropic-beta"}, d)
          /\ ContentLengthOf(d, infUpstream[i].body)

\* the comma-separated pieces of the anthropic-beta fields of items, in the
\* order received
RECURSIVE BetaParts(_)
BetaParts(items) ==
    IF items = <<>> THEN <<>>
    ELSE (IF lower(items[1][1]) = "anthropic-beta" THEN items[1][2].parts
          ELSE <<>>) \o BetaParts(Tail(items))

\* C35: with an OAuth token the upstream request has exactly one
\* anthropic-beta field; its list is the anthropic-beta values the VM sent,
\* in the order sent, followed by the element oauth-2025-04-20, which is
\* not added when the VM already sent that element.  With an API key the
\* anthropic-beta values are the ones the VM sent and nothing is added.
C35_OauthBetaMerged ==
    \A i \in 1..Len(infUpstream) :
        LET sent == BetaParts(infReq.headers)
            beta == FieldsNamed(infUpstream[i].headers, {"anthropic-beta"})
        IN  IF infAuth.is_oauth
            THEN /\ Len(beta) = 1
                 /\ beta[1][2].parts =
                       IF \E k \in 1..Len(sent) : sent[k] = oauth_beta
                       THEN sent ELSE Append(sent, oauth_beta)
            ELSE IF sent = <<>> THEN beta = <<>>
            ELSE Len(beta) = 1 /\ beta[1][2].parts = sent

(***************************************************************************)
(* Claims about the credential file on disk (specification SpecStore)      *)
(***************************************************************************)
\* C36: a read of the credential file made with no lock, while writers
\* run _save_credentials, never returns a partially written or an empty
\* document: it returns a complete content the file name had at some time
\* between the open and the end of the read, the one from before a write
\* or the one after it.
C36_ReadsSeeWholeDocuments ==
    \A i \in 1..Len(readLog) :
        /\ readLog[i].got.kind \in {"doc", "missing"}
        /\ \E k \in readLog[i].from..readLog[i].to :
              readLog[i].got = pathLog[k]

\* a read that was open while a writer replaced the file returned the
\* document from before the write, and a later read the one after it
C36_Witness ==
    /\ Len(readLog) = 2
    /\ readLog[1].from < readLog[1].to
    /\ readLog[1].got = Doc(0, "kept")
    /\ readLog[2].got.kind = "doc"
    /\ readLog[2].got.oauth # 0

(***************************************************************************)
(* Claims about the bytes on the VM connection (specification SpecWire)    *)
(***************************************************************************)
\* the number a run of hexadecimal digits spells
RECURSIVE HexValue(_)
HexValue(text) ==
    IF text = <<>> THEN 0
    ELSE LET d == text[Len(text)]
             v == CHOOSE k \in 0..15 : ToBase(k, 16) = <<d>>
         IN  16 * HexValue(SubSeq(text, 1, Len(text) - 1)) + v

\* the number a run of decimal digits spells
RECURSIVE DecValue(_)
DecValue(text) ==
    IF text = <<>> THEN 0
    ELSE LET d == text[Len(text)]
             v == CHOOSE k \in 0..9 : ToBase(k, 10) = <<d>>
         IN  10 * DecValue(SubSeq(text, 1, Len(text) - 1)) + v

\* a chunked body as an HTTP/1.1 client reads it: size line, CRLF, that
\* many bytes of data, CRLF, up to the chunk of size 0 and the CRLF that
\* ends the body; ok says that the items are exactly that, chunks are the
\* data items read
RECURSIVE ParseChunks(_)
ParseChunks(items) ==
    IF Len(items) < 3 \/ items[1].t # "text" \/ items[2].t # "crlf"
    THEN [ok |-> FALSE, chunks |-> <<>>]
    ELSE LET size == HexValue(items[1].text) IN
         IF size = 0
         THEN [ok |-> Len(items) = 3 /\ items[3].t = "crlf", chunks |-> <<>>]
         ELSE IF /\ Len(items) >= 4
                 /\ items[3].t = "data"
                 /\ items[3].to - items[3].from + 1 = size
                 /\ items[4].t = "crlf"
         THEN LET r == ParseChunks(SubSeq(items, 5, Len(items)))
              IN  [ok |-> r.ok, chunks |-> <<items[3]>> \o r.chunks]
         ELSE [ok |-> FALSE, chunks |-> <<>>]

\* the index of the empty line that ends the headers of the response
HeadEnd(out) == CHOOSE i \in 1..Len(out) : out[i].t = "end_headers"

\* the header fields of the response, those of send_response left out
SentFields(out) ==
    LET lines == SelectSeq(SubSeq(out, 1, HeadEnd(out)),
                           LAMBDA it : it.t = "header"
                                       /\ it.field[1] \notin {"Server", "Date"})
    IN  [i \in 1..Len(lines) |-> lines[i].field]

\* what follows the headers
SentBody(out) == SubSeq(out, HeadEnd(out) + 1, Len(out))

StatusLines(out) == SelectSeq(out, LAMBDA it : it.t = "status")

\* the fields named n, in any letter case
FieldsOf(fields, n) == SelectSeq(fields, LAMBDA f : lower(f[1]) = n)

\* the response to the request in hand has been written in full
Answered(how) ==
    /\ wPc \in {"idle", "closed"}
    /\ wUp # NoUp
    /\ wLog # <<>>
    /\ wLog[Len(wLog)].how = how

\* C31: when a streaming upstream response has been read to its end, the
\* VM has received the upstream status, the upstream header fields without
\* Transfer-Encoding, Content-Length, Connection and Keep-Alive, exactly
\* one Transfer-Encoding: chunked, then chunks of 1 to 8192 bytes each
\* framed as hexadecimal length, CRLF, data, CRLF, whose data in order are
\* the upstream body, and then exactly one chunk of length zero.
C31_StreamFraming ==
    Answered("streamed") =>
        LET fields == SentFields(wOut)
            p == ParseChunks(SentBody(wOut))
            n == Len(p.chunks)
        IN  /\ StatusLines(wOut) = <<StatusLine(wUp.status)>>
            /\ wOut[1] = StatusLine(wUp.status)
            /\ fields = RelayHeaders(wUp.headers, HOP_HEADERS)
                            \o << <<"Transfer-Encoding", Word("chunked")>> >>
            /\ Len(FieldsOf(fields, "transfer-encoding")) = 1
            /\ \A h \in {"content-length", "connection", "keep-alive"} :
                  FieldsOf(fields, h) = <<>>
            /\ p.ok
            /\ \A i \in 1..n :
                  /\ p.chunks[i].src = "upstream"
                  /\ p.chunks[i].to - p.chunks[i].from + 1 \in 1..8192
                  /\ p.chunks[i].from = IF i = 1 THEN 1 ELSE p.chunks[i - 1].to + 1
            /\ (IF n = 0 THEN 0 ELSE p.chunks[n].to) = wUp.len

\* a body of 8193 bytes whose upstream response had transfer-encoding in
\* lower case, Connection and Keep-Alive was relayed in two chunks, the
\* first of 8192 bytes
C31_Witness ==
    /\ Answered("streamed")
    /\ wUp.len = 8193
    /\ FieldsOf(wUp.headers, "keep-alive") # <<>>
    /\ Len(ParseChunks(SentBody(wOut)).chunks) = 2
    /\ ParseChunks(SentBody(wOut)).chunks[1].to = 8192

\* the number of body bytes in a run of items
RECURSIVE DataBytes(_)
DataBytes(items) ==
    IF items = <<>> THEN 0
    ELSE (IF items[1].t = "data" THEN items[1].to - items[1].from + 1 ELSE 0)
             + DataBytes(Tail(items))

\* C32: for every non-streaming upstream response, in all three proxies,
\* the response sent to the VM has exactly one Content-Length field, whose
\* value is the number of body bytes sent, and no Transfer-Encoding field.
C32_OneContentLength ==
    Answered("relay") =>
        LET fields == SentFields(wOut)
            lengths == FieldsOf(fields, "content-length")
        IN  /\ Len(lengths) = 1
            /\ DecValue(lengths[1][2].digits) = DataBytes(SentBody(wOut))
            /\ DataBytes(SentBody(wOut)) = wUp.len
            /\ FieldsOf(fields, "transfer-encoding") = <<>>

\* C33: when the connection breaks or is reset while a streaming response
\* is being relayed, the proxy stops relaying, closes the upstream
\* connection, sends no second status line or error response on that
\* connection, makes no retry, and the daemon keeps serving other
\* connections.
C33_BrokenStream ==
    /\ [][wPc = "streaming" /\ wPc' # "streaming" /\ wOut' = wOut
              => /\ wUpConn' = "closed"
                 /\ wCalls' = wCalls
                 /\ wPc' = "closed"
                 /\ wLog' = Append(wLog, LogEntry(wUp.status, "broken", 0, TRUE))]_vars
    /\ [][Answered("broken") => wConn' = wConn + 1 /\ wPc' = "idle"]_vars
    /\ [](Answered("broken") =>
              /\ Len(StatusLines(wOut)) = 1
              /\ wOut[Len(wOut)].t \in {"end_headers", "crlf"}
              /\ wUpConn = "closed"
              /\ (wConn < MaxWireConns => ENABLED WireNextConn))

\* the relay broke after a chunk of the body had been written, at the
\* first upstream call
C33_Witness ==
    /\ Answered("broken")
    /\ wCalls = 1
    /\ DataCount(wOut) = 1
    /\ wRead < wUp.len

\* C39: on a keep-alive connection each proxy has read all Content-Length
\* bytes of a request's body before it writes any response to that
\* request, the error responses 401 and 403 included, so the next request
\* on the same connection is always parsed starting at its own request
\* line.
C39_BodyReadBeforeResponse ==
    \A i \in 1..Len(wLog) :
        wLog[i].code # 0 => wLog[i].unread = 0 /\ wLog[i].aligned

(***************************************************************************)
(* Claims about the end of get_auth_token (specification SpecCred)         *)
(***************************************************************************)
\* C40: every call to get_auth_token ends with a token or an error and
\* leaves both the in-process refresh mutex and the advisory file lock
\* released, on every path (file read error, missing access token, missing
\* refresh token, refresh failure, write failure); the mutex is always
\* taken before the file lock.
C40_EndsWithTokenOrError ==
    \A t \in Threads :
        /\ thrPc[t] = "resolved"
              => /\ thrOut[t].out \in {"ok", "err"}
                 /\ _refresh_lock # t
                 /\ credFlock # t
        /\ credFlock = t => _refresh_lock = t

====
